---- MODULE Spec2Model ----
(***************************************************************************)
(* Model of the Turso dialect's query execution layer                      *)
(* (packages/turso/src/query.js) and connection manager                    *)
(* (packages/turso/src/connection-manager.ts).                             *)
(*                                                                         *)
(* Text (SQL, error messages) is modelled as a sequence of tokens: each    *)
(* token is a piece of text that the code's searches, regular expressions  *)
(* and splits treat as a unit. A JavaScript string is a token sequence, so *)
(* includes(), match() and split() are computed on the text, not assumed.  *)
(***************************************************************************)
EXTENDS Integers, Sequences, FiniteSets, TLC

(***************************************************************************)
(* Bounds of the model.                                                    *)
(***************************************************************************)
\* longest arbitrary (not well-formed) error message, in tokens
MaxArb == 3
\* most columns listed in a well-formed unique-violation message
MaxFields == 2

(***************************************************************************)
(* Text helpers.                                                           *)
(***************************************************************************)
\* String.prototype.includes for a one-token needle
Includes(text, tok) == \E i \in 1..Len(text) : text[i] = tok

\* index of the first occurrence of tok at or after position from, 0 if none
IndexFrom(text, tok, from) ==
  IF \E i \in from..Len(text) : text[i] = tok
  THEN CHOOSE i \in from..Len(text) :
         /\ text[i] = tok
         /\ \A j \in from..(i - 1) : text[j] # tok
  ELSE 0

\* String.prototype.split(sep): the parts between the separators, in order;
\* a text without the separator (the empty text too) gives one part
RECURSIVE Split(_, _)
Split(text, sep) ==
  LET i == IndexFrom(text, sep, 1)
  IN IF i = 0 THEN <<text>>
     ELSE <<SubSeq(text, 1, i - 1)>> \o Split(SubSeq(text, i + 1, Len(text)), sep)

\* the text made of parts joined by sep
RECURSIVE Join(_, _)
Join(parts, sep) ==
  IF Len(parts) = 0 THEN <<>>
  ELSE IF Len(parts) = 1 THEN parts[1]
  ELSE parts[1] \o <<sep>> \o Join(Tail(parts), sep)

\* all sequences over S of length 0..n
SeqsUpTo(S, n) == UNION {[1..k -> S] : k \in 0..n}

\* the JavaScript value undefined, where a string is expected
Undefined == <<"<undefined>">>

(***************************************************************************)
(* Raw engine errors.                                                      *)
(***************************************************************************)
COLS == "columns "
ARE == " are"
UCF == "UNIQUE constraint failed: "
FKF == "FOREIGN KEY constraint failed"
SEP == ", "
DOT == "."

\* the case labels of formatError's first group (query.js 299-303)
ConstraintCodes ==
  {"SQLITE_CONSTRAINT_UNIQUE", "SQLITE_CONSTRAINT_PRIMARYKEY",
   "SQLITE_CONSTRAINT_TRIGGER", "SQLITE_CONSTRAINT_FOREIGNKEY",
   "SQLITE_CONSTRAINT"}

\* the case label of formatError's second group (query.js 352)
BusyCodes == {"SQLITE_BUSY"}

\* an error object without a code property
NoCode == "<no code>"

\* lock/busy result codes of the engine: SQLITE_BUSY, its extended codes,
\* and the SQLITE_LOCKED family
LockBusyCodes ==
  {"SQLITE_BUSY", "SQLITE_BUSY_SNAPSHOT", "SQLITE_LOCKED",
   "SQLITE_LOCKED_SHAREDCACHE"}

\* the codes an engine error is drawn from
ErrorCodes == ConstraintCodes \cup LockBusyCodes \cup {"SQLITE_ERROR", NoCode}

Tables == {"users"}
Columns == {"email", "username"}

\* "UNIQUE constraint failed: t.c, t.c2": the newer message form
NewFormMessage(entries) ==
  <<UCF>> \o Join([i \in 1..Len(entries) |->
                     <<entries[i][1], DOT, entries[i][2]>>], SEP)

\* "columns c, c2 are not unique": the older message form
OldFormMessage(cols) ==
  <<COLS>> \o Join([i \in 1..Len(cols) |-> <<cols[i]>>], SEP)
           \o <<ARE, " not unique">>

NewFormEntries ==
  UNION {[1..k -> Tables \X Columns] : k \in 1..MaxFields}
OldFormColumns ==
  UNION {[1..k -> Columns] : k \in 1..MaxFields}

WellFormedMessages ==
  {NewFormMessage(en) : en \in NewFormEntries}
    \cup {OldFormMessage(cs) : cs \in OldFormColumns}

ArbitraryTokens == {COLS, ARE, UCF, FKF, SEP, DOT, "email", "users"}

\* the message texts an engine error is drawn from: the two well-formed
\* forms, the same with a foreign-key failure text before or after them,
\* and every short text over the tokens the classifier looks at
Messages ==
  WellFormedMessages
    \cup {<<FKF>> \o m : m \in WellFormedMessages}
    \cup {m \o <<FKF>> : m \in WellFormedMessages}
    \cup SeqsUpTo(ArbitraryTokens, MaxArb)

\* a raw engine error: code (NoCode when absent) and message (hasMessage is
\* FALSE when the error has no message property)
RawErrors ==
  [code : ErrorCodes, hasMessage : {TRUE}, message : Messages]
    \cup [code : ErrorCodes, hasMessage : {FALSE}, message : {<<>>}]

\* the model of a query: absent, or with its declared indexes
NoModel == [present |-> FALSE, indexes |-> <<>>]
Models ==
  {NoModel,
   [present |-> TRUE, indexes |-> <<>>],
   [present |-> TRUE,
    indexes |-> <<[unique |-> FALSE, fields |-> <<<<"email">>>>, msg |-> "not used"],
                  [unique |-> TRUE, fields |-> <<<<"email">>>>, msg |-> "email taken"],
                  [unique |-> TRUE, fields |-> <<<<"email">>, <<"username">>>>, msg |-> ""]>>]}

(***************************************************************************)
(* TursoQuery.formatError (query.js 297-358).                              *)
(***************************************************************************)
\* err.message.match(/columns (.*?) are/): the text between the first
\* "columns " and the nearest " are" after it
matchColumnsAre(message) ==
  LET i == IndexFrom(message, COLS, 1)
      j == IF i = 0 THEN 0 ELSE IndexFrom(message, ARE, i + 1)
  IN IF j = 0 THEN [matched |-> FALSE, group |-> <<>>]
     ELSE [matched |-> TRUE, group |-> SubSeq(message, i + 1, j - 1)]

\* err.message.match(/UNIQUE constraint failed: (.*)/): the rest of the text
\* after the first "UNIQUE constraint failed: "
matchUniqueFailed(message) ==
  LET i == IndexFrom(message, UCF, 1)
  IN IF i = 0 THEN [matched |-> FALSE, group |-> <<>>]
     ELSE [matched |-> TRUE, group |-> SubSeq(message, i + 1, Len(message))]

\* (mutation of stripTable: the table prefix is kept)
stripTable_Keep(columnWithTable) == columnWithTable

\* columnWithTable.split('.')[1]
stripTable(columnWithTable) ==
  LET parts == Split(columnWithTable, DOT)
  IN IF Len(parts) >= 2 THEN parts[2] ELSE Undefined

\* the fields list built at query.js 310-322
uniqueFields(message) ==
  LET old == matchColumnsAre(message)
      new == matchUniqueFailed(message)
  IN IF old.matched THEN Split(old.group, SEP)
     ELSE IF new.matched
          THEN LET parts == Split(new.group, SEP)
               IN [i \in 1..Len(parts) |-> stripTable(parts[i])]
          ELSE <<>>

\* the message chosen at query.js 325, 340-347: the msg of the first unique
\* index over exactly these fields that has one
uniqueMessage(model, fields) ==
  LET hit(i) == /\ model.indexes[i].unique
                /\ model.indexes[i].fields = fields
                /\ model.indexes[i].msg # ""
      hits == {i \in 1..Len(model.indexes) : hit(i)}
  IN IF model.present /\ hits # {}
     THEN model.indexes[CHOOSE i \in hits : \A j \in hits : i <= j].msg
     ELSE "Validation error"

\* (mutation of isForeignKeyMessage: startsWith in place of includes)
isForeignKeyMessage_Prefix(message) == Len(message) > 0 /\ message[1] = FKF

\* err.message.includes('FOREIGN KEY constraint failed') (query.js 304)
isForeignKeyMessage(message) == Includes(message, FKF)

\* a classified error: threw is TRUE when formatError itself throws (kind is
\* then the thrown error's type), cause is the raw error handed in
Classified(kind, fields, message, errors, cause) ==
  [threw |-> FALSE, kind |-> kind, fields |-> fields, message |-> message,
   errors |-> errors, cause |-> cause]

Thrown(kind) ==
  [threw |-> TRUE, kind |-> kind, fields |-> <<>>, message |-> "",
   errors |-> <<>>, cause |-> [code |-> NoCode, hasMessage |-> FALSE, message |-> <<>>]]

\* (mutation of isBusyCode: the SQLITE_BUSY case is missing)
isBusyCode_None(code) == FALSE

\* case 'SQLITE_BUSY' (query.js 352): the codes that give a TimeoutError
isBusyCode(code) == code \in BusyCodes

formatError(e, model) ==
  IF e.code \in ConstraintCodes
  THEN IF ~e.hasMessage
       THEN \* err.message is undefined: undefined.includes is a TypeError
            Thrown("TypeError")
       ELSE IF isForeignKeyMessage(e.message)
       THEN Classified("ForeignKeyViolation", <<>>, "", <<>>, e)
       ELSE LET fields == uniqueFields(e.message)
                errors == [i \in 1..Len(fields) |->
                             [type |-> "unique violation", path |-> fields[i],
                              validatorKey |-> "not_unique"]]
            IN Classified("UniqueViolation", fields,
                          uniqueMessage(model, fields), errors, e)
  ELSE IF isBusyCode(e.code)
  THEN Classified("BusyTimeout", <<>>, "", <<>>, e)
  ELSE Classified("Generic", <<>>, "", <<>>, e)

ErrorKinds == {"UniqueViolation", "ForeignKeyViolation", "BusyTimeout", "Generic"}

(***************************************************************************)
(* SQL text, parameters and engine results of a run.                       *)
(***************************************************************************)
INDEX_LIST == "PRAGMA INDEX_LIST"
INDEX_INFO == "PRAGMA INDEX_INFO"
TABLE_INFO == "PRAGMA TABLE_INFO"

\* the names a placeholder or a parameter key can carry
ParamNames == {"age", "username"}

\* the name with the sigil applied (query.js 181, 276)
Sigil(name) == CASE name = "age" -> "$age"
                 [] name = "username" -> "$username"
                 [] OTHER -> name

\* key.startsWith('$')
startsWithSigil(key) == \E n \in ParamNames : key = Sigil(n)

\* the name matched by /\$(\w+)/ in a placeholder token
PlaceholderName(tok) == CHOOSE n \in ParamNames : Sigil(n) = tok

\* String.prototype.toLowerCase, token by token
LowerToken(tok) ==
  CASE tok = "CREATE TEMPORARY TABLE" -> "create temporary table"
    [] tok = "Create Temporary Table" -> "create temporary table"
    [] tok = "PRAGMA INDEX_LIST" -> "pragma index_list"
    [] tok = "PRAGMA INDEX_INFO" -> "pragma index_info"
    [] tok = "PRAGMA TABLE_INFO" -> "pragma table_info"
    [] tok = "SELECT * FROM users" -> "select * from users"
    [] tok = "INSERT INTO users (age, username) VALUES (" -> "insert into users (age, username) values ("
    [] tok = "DELETE FROM users WHERE age = " -> "delete from users where age = "
    [] OTHER -> tok

toLowerCase(text) == [i \in 1..Len(text) |-> LowerToken(text[i])]

\* the SQL texts a caller passes to run
SqlSelect == <<"SELECT * FROM users">>
SqlInsert == <<"INSERT INTO users (age, username) VALUES (", "$age", ", ", "$username", ")">>
SqlDelete == <<"DELETE FROM users WHERE age = ", "$age">>
SqlCreateTemp == <<"CREATE TEMPORARY TABLE", " t (id)">>
SqlCreateTempMixed == <<"Create Temporary Table", " t (id)">>
SqlIndexList == <<INDEX_LIST, "(users)">>
SqlTableInfo == <<TABLE_INFO, "(users)">>

SqlTexts ==
  {SqlSelect, SqlInsert, SqlDelete, SqlCreateTemp, SqlCreateTempMixed,
   SqlIndexList, SqlTableInfo}

\* the text PRAGMA INDEX_INFO(name) built at query.js 368
IndexInfoSql(name) == <<INDEX_INFO, "(", name, ")">>

\* a JavaScript value handed in as a parameter: its type and its text
NumberValue(text) == [t |-> "number", v |-> text]
BigintValue(text) == [t |-> "bigint", v |-> text]
StringValue(text) == [t |-> "string", v |-> text]
NullValue == [t |-> "null", v |-> "null"]

\* (mutation of stringifyIfBigint: the value is passed through)
stringifyIfBigint_Id(value) == value

\* stringifyIfBigint (query.js 21-27)
stringifyIfBigint(value) ==
  IF value.t = "bigint" THEN StringValue(value.v) ELSE value

\* the parameters argument of run: absent, a positional array, or a plain
\* object given as its key/value entries in key order
NoParams == [form |-> "absent", list |-> <<>>]
ArrayParams(list) == [form |-> "array", list |-> list]
NamedParams(entries) == [form |-> "named", list |-> entries]

ParamSets ==
  {NoParams,
   ArrayParams(<<>>),
   ArrayParams(<<NumberValue("1"), BigintValue("9223372036854775807")>>),
   NamedParams(<<[key |-> "age", value |-> NumberValue("40")],
                 [key |-> "$username", value |-> StringValue("u")]>>),
   NamedParams(<<[key |-> "$username", value |-> BigintValue("7")],
                 [key |-> "username", value |-> StringValue("v")]>>)}

\* index of the entry with this key, 0 when the object has no such key
KeyIndex(entries, key) ==
  IF \E i \in 1..Len(entries) : entries[i].key = key
  THEN CHOOSE i \in 1..Len(entries) : entries[i].key = key
  ELSE 0

\* newParameters[normalizedKey] = stringifyIfBigint(parameters[key]) for each
\* key in order (query.js 178-185): an assignment to a key already present
\* replaces the value and keeps the position of the key
RECURSIVE normalizeNamed(_, _)
normalizeNamed(entries, acc) ==
  IF Len(entries) = 0 THEN acc
  ELSE LET key == entries[1].key
           normalizedKey == IF startsWithSigil(key) THEN key ELSE Sigil(key)
           val == stringifyIfBigint(entries[1].value)
           at == KeyIndex(acc, normalizedKey)
           acc2 == IF at = 0
                   THEN Append(acc, [key |-> normalizedKey, value |-> val])
                   ELSE [acc EXCEPT ![at].value = val]
       IN normalizeNamed(Tail(entries), acc2)

\* the parameters after the first part of executeSql (query.js 172-189)
normalizeParameters(params) ==
  IF params.form = "absent" THEN ArrayParams(<<>>)
  ELSE IF params.form = "named"
  THEN NamedParams(normalizeNamed(params.list, <<>>))
  ELSE ArrayParams([i \in 1..Len(params.list) |-> stringifyIfBigint(params.list[i])])

\* (mutation of paramNamesOf: a name is collected once, at its first
\* occurrence)
RECURSIVE paramNamesOf_Distinct(_)
paramNamesOf_Distinct(sql) ==
  IF Len(sql) = 0 THEN <<>>
  ELSE LET before == paramNamesOf_Distinct(SubSeq(sql, 1, Len(sql) - 1))
           tok == sql[Len(sql)]
       IN IF startsWithSigil(tok)
             /\ ~\E i \in 1..Len(before) : before[i] = PlaceholderName(tok)
          THEN Append(before, PlaceholderName(tok))
          ELSE before

\* the placeholder names of the SQL text, left to right (query.js 265-270)
RECURSIVE paramNamesOf(_)
paramNamesOf(sql) ==
  IF Len(sql) = 0 THEN <<>>
  ELSE IF startsWithSigil(sql[1])
       THEN <<PlaceholderName(sql[1])>> \o paramNamesOf(Tail(sql))
       ELSE paramNamesOf(Tail(sql))

\* (mutation of resolveNames: the fallback does not look at usedKeys and
\* hands out the first key every time)
RECURSIVE resolveNames_Reuse(_, _, _)
resolveNames_Reuse(names, entries, usedKeys) ==
  IF Len(names) = 0 THEN <<>>
  ELSE LET name == names[1]
           prefixed == Sigil(name)
       IN IF KeyIndex(entries, prefixed) # 0
          THEN <<entries[KeyIndex(entries, prefixed)].value>>
                 \o resolveNames_Reuse(Tail(names), entries, usedKeys)
          ELSE IF KeyIndex(entries, name) # 0
          THEN <<entries[KeyIndex(entries, name)].value>>
                 \o resolveNames_Reuse(Tail(names), entries, usedKeys)
          ELSE IF Len(entries) > 0
          THEN <<entries[1].value>>
                 \o resolveNames_Reuse(Tail(names), entries, usedKeys)
          ELSE <<NullValue>> \o resolveNames_Reuse(Tail(names), entries, usedKeys)

\* the map callback of _convertNamedParamsToPositional (query.js 275-294),
\* placeholder by placeholder, usedKeys carried along
RECURSIVE resolveNames(_, _, _)
resolveNames(names, entries, usedKeys) ==
  IF Len(names) = 0 THEN <<>>
  ELSE LET name == names[1]
           prefixed == Sigil(name)
           unused == {i \in 1..Len(entries) : entries[i].key \notin usedKeys}
           fallback == IF unused = {} THEN 0
                       ELSE CHOOSE i \in unused : \A j \in unused : i <= j
       IN IF KeyIndex(entries, prefixed) # 0
          THEN <<entries[KeyIndex(entries, prefixed)].value>>
                 \o resolveNames(Tail(names), entries, usedKeys \cup {prefixed})
          ELSE IF KeyIndex(entries, name) # 0
          THEN <<entries[KeyIndex(entries, name)].value>>
                 \o resolveNames(Tail(names), entries, usedKeys \cup {name})
          ELSE IF fallback # 0
          THEN <<entries[fallback].value>>
                 \o resolveNames(Tail(names), entries,
                                 usedKeys \cup {entries[fallback].key})
          ELSE <<NullValue>> \o resolveNames(Tail(names), entries, usedKeys)

\* (mutation of convertNamedParamsToPositional: the values are returned in
\* key order, not in placeholder order)
convertNamedParamsToPositional_KeyOrder(query, namedParams) ==
  [i \in 1..Len(namedParams) |-> namedParams[i].value]

\* TursoQuery._convertNamedParamsToPositional (query.js 264-295)
convertNamedParamsToPositional(query, namedParams) ==
  resolveNames(paramNamesOf(query), namedParams, {})

\* (mutation of engineArguments: a mapping is handed to the statement as it
\* is, as one argument)
engineArguments_Forward(query, parameters) ==
  IF parameters.form = "array" THEN parameters.list
  ELSE <<[t |-> "object", v |-> "mapping"]>>

\* the arguments spread into stmt.all / stmt.run (query.js 217-224, 243-250)
engineArguments(query, parameters) ==
  IF parameters.form = "array" THEN parameters.list
  ELSE convertNamedParamsToPositional(query, parameters.list)

(***************************************************************************)
(* Query classification and TursoQuery.getDatabaseMethod.                  *)
(***************************************************************************)
QueryTypes ==
  {"Insert", "BulkUpdate", "Update", "Upsert", "Delete", "Select",
   "ShowOrDescribe", "ShowConstraints", "ShowIndexes", "ShowTableInfo", "Raw"}

\* the classification predicates of the abstract query: one tag per request
isInsertQuery(o) == o.type = "Insert"
isUpdateQuery(o) == o.type = "Update"
isUpsertQuery(o) == o.type = "Upsert"
isBulkUpdateQuery(o) == o.type = "BulkUpdate"
isDeleteQuery(o) == o.type = "Delete"
isSelectQuery(o) == o.type = "Select"
isShowOrDescribeQuery(o) == o.type = "ShowOrDescribe"
isShowConstraintsQuery(o) == o.type = "ShowConstraints"
isRawQuery(o) == o.type = "Raw"

\* this.sql.toLowerCase().includes('CREATE TEMPORARY TABLE'.toLowerCase())
isCreateTemporaryTable(sql) ==
  Includes(toLowerCase(sql), LowerToken("CREATE TEMPORARY TABLE"))

\* (mutation of getDatabaseMethod: options.returning is not consulted)
getDatabaseMethod_NoReturning(o, sql) ==
  IF isBulkUpdateQuery(o) \/ isInsertQuery(o) \/ isUpdateQuery(o) \/ isUpsertQuery(o)
  THEN "run"
  ELSE IF isDeleteQuery(o) \/ isCreateTemporaryTable(sql) THEN "run" ELSE "all"

\* TursoQuery.getDatabaseMethod (query.js 382-400)
getDatabaseMethod(o, sql) ==
  IF isBulkUpdateQuery(o) \/ isInsertQuery(o) \/ isUpdateQuery(o) \/ isUpsertQuery(o)
  THEN IF o.returning THEN "all" ELSE "run"
  ELSE IF isDeleteQuery(o) \/ isCreateTemporaryTable(sql) THEN "run" ELSE "all"

(***************************************************************************)
(* Engine results.                                                         *)
(***************************************************************************)
\* most rows the engine returns for an ordinary statement
MaxRows == 2
\* most index rows PRAGMA INDEX_LIST returns
MaxIdx == 2
\* most column rows PRAGMA TABLE_INFO returns
MaxTableRows == 1
\* largest changed-row count the engine reports
MaxChanges == 1

\* a row is its columns in key order
RowA == <<[col |-> "id", val |-> "1"], [col |-> "user_name", val |-> "bob"]>>
RowB == <<[col |-> "is_admin", val |-> "1"], [col |-> "extra", val |-> "x"]>>
DataRows == {RowA, RowB}
RowSets == SeqsUpTo(DataRows, MaxRows)

\* rows of PRAGMA INDEX_LIST: unique is the engine's 0 / 1
IndexRows ==
  {[name |-> "idx_email", unique |-> 1],
   [name |-> "idx_age", unique |-> 0],
   [name |-> "idx_name", unique |-> 1]}
IndexLists ==
  {l \in SeqsUpTo(IndexRows, MaxIdx) :
     \A i, j \in 1..Len(l) : i # j => l[i].name # l[j].name}

\* rows of PRAGMA INDEX_INFO
InfoRowSets ==
  {<<>>,
   <<[seqno |-> 0, name |-> "email"]>>,
   <<[seqno |-> 1, name |-> "username"], [seqno |-> 0, name |-> "email"]>>}

\* a dflt_value of PRAGMA TABLE_INFO: null, or a text
DfltNull == [isNull |-> TRUE, text |-> <<>>]
DfltText(text) == [isNull |-> FALSE, text |-> text]

TableInfoRows ==
  [name : {"active", "label"}, type : {"TINYINT(1)", "VARCHAR(255)"},
   dflt_value : {DfltNull, DfltText(<<"NULL">>), DfltText(<<"1">>),
                 DfltText(<<"0">>), DfltText(<<"'", "abc", "'">>)},
   notnull : {0, 1}, pk : {0, 1}]
\* the columns of one table: no column name twice
TableInfoSets ==
  {t \in SeqsUpTo(TableInfoRows, MaxTableRows) :
     \A i, j \in 1..Len(t) : i # j => t[i].name # t[j].name}

\* what stmt.all resolves to for this SQL text
AllResults(sql) ==
  IF Includes(sql, INDEX_LIST) THEN IndexLists
  ELSE IF Includes(sql, INDEX_INFO) THEN InfoRowSets
  ELSE IF Includes(sql, TABLE_INFO) THEN TableInfoSets
  ELSE RowSets

\* what stmt.run resolves to: changes, and lastInsertRowid when reported
RunResults ==
  [changes : 0..MaxChanges, hasRowid : {TRUE}, lastInsertRowid : {0, 5}]
    \cup [changes : 0..MaxChanges, hasRowid : {FALSE}, lastInsertRowid : {0}]

\* the errors stmt.all / stmt.run reject with
RunErrors ==
  {[code |-> "SQLITE_BUSY", hasMessage |-> TRUE, message |-> <<"database is locked">>],
   [code |-> "SQLITE_CONSTRAINT", hasMessage |-> FALSE, message |-> <<>>]}

\* the errors connection.prepare throws
PrepareErrors ==
  {[code |-> "SQLITE_ERROR", hasMessage |-> TRUE, message |-> <<"syntax error">>]}

\* a JavaScript number, NaN, null, or nothing
Num(n) == [kind |-> "number", n |-> n]
NaN == [kind |-> "nan", n |-> 0]
Null == [kind |-> "null", n |-> 0]
NoNum == [kind |-> "none", n |-> 0]

\* Number(result.lastInsertRowid) (query.js 254): Number(undefined) is NaN
NumberOf(res) == IF res.hasRowid THEN Num(res.lastInsertRowid) ELSE NaN

\* the statement metadata of rowset mode (query.js 227-230)
ZeroMeta == [lastID |-> Num(0), changes |-> 0]

\* (mutation of RunMeta: the changed-row count is not taken over)
RunMeta_NoChanges(res) == [lastID |-> NumberOf(res), changes |-> 0]

\* the statement metadata of rowcount mode (query.js 253-256)
RunMeta(res) == [lastID |-> NumberOf(res), changes |-> res.changes]

(***************************************************************************)
(* TursoQuery._handleQueryResponse (query.js 57-163).                      *)
(***************************************************************************)
\* this.model.modelDefinition.columns: column name -> attribute
ColumnNames == {"id", "user_name", "is_admin"}
AttributeOf(col) ==
  CASE col = "id" -> [attributeName |-> "id", type |-> "INTEGER"]
    [] col = "user_name" -> [attributeName |-> "userName", type |-> "STRING"]
    [] col = "is_admin" -> [attributeName |-> "isAdmin", type |-> "BOOLEAN"]

AttributeNames == {"id", "userName", "isAdmin", "extra"}

\* the abstract query's _parseDatabaseValue: the value coerced per the
\* attribute type (no type: unchanged)
parseDatabaseValue(val, hasType, type) ==
  IF hasType /\ type = "BOOLEAN"
  THEN (CASE val = "1" -> "true" [] val = "0" -> "false" [] OTHER -> val)
  ELSE val

\* the target instance of a query: absent, or its data values and the
\* attributes set from the database
NoInstance ==
  [present |-> FALSE, dataValues |-> [a \in AttributeNames |-> "<unset>"], fromDb |-> {}]
NewInstance ==
  [present |-> TRUE, dataValues |-> [a \in AttributeNames |-> "<unset>"], fromDb |-> {}]

\* (mutation of setFromRow: the column name is used as the attribute name)
setFromRow_ColumnName(inst, cell) ==
  [inst EXCEPT !.dataValues[cell.col] = cell.val,
               !.fromDb = @ \cup {cell.col}]

\* one turn of the loop at query.js 67-79: instance.set(attribute name or
\* column name, parsed value, {raw, comesFromDatabase})
setFromRow(inst, cell) ==
  LET known == cell.col \in ColumnNames
      name == IF known THEN AttributeOf(cell.col).attributeName ELSE cell.col
      updatedValue == parseDatabaseValue(cell.val, known,
                        IF known THEN AttributeOf(cell.col).type ELSE "")
  IN [inst EXCEPT !.dataValues[name] = updatedValue,
                  !.fromDb = @ \cup {name}]

RECURSIVE applyRow(_, _)
applyRow(inst, row) ==
  IF Len(row) = 0 THEN inst
  ELSE applyRow(setFromRow(inst, row[1]), Tail(row))

\* the abstract query's handleSelectQuery: one record per row, in order
handleSelectQuery(rows) == [i \in 1..Len(rows) |-> [record |-> rows[i]]]

\* a default value of a shaped column: undefined, null, a boolean or a text
DvUndefined == [t |-> "undefined", text |-> <<>>]
DvNull == [t |-> "null", text |-> <<>>]
DvBool(b) == [t |-> "boolean", text |-> <<IF b THEN "true" ELSE "false">>]
DvString(text) == [t |-> "string", text |-> text]

\* { 0: false, 1: true }[defaultValue] (query.js 145-147)
booleanDefault(dv) ==
  IF dv.t = "string" /\ dv.text = <<"1">> THEN DvBool(TRUE)
  ELSE IF dv.t = "string" /\ dv.text = <<"0">> THEN DvBool(FALSE)
  ELSE DvUndefined

\* defaultValue.replaceAll("'", '') (query.js 151)
stripQuotes(text) == SelectSeq(text, LAMBDA tok : tok # "'")

\* (mutation of tableInfoEntry: allowNull and primaryKey take the flags as
\* they come, notnull for allowNull)
tableInfoEntry_FlagsAsGiven(row) ==
  [name |-> row.name, type |-> row.type, allowNull |-> (row.notnull # 0),
   defaultValue |-> IF row.dflt_value.isNull THEN DvUndefined
                    ELSE DvString(row.dflt_value.text),
   primaryKey |-> (row.pk # 0)]

\* the entry built for one TABLE_INFO row (query.js 127-152)
tableInfoEntry(row) ==
  LET dv0 == IF row.dflt_value.isNull THEN DvUndefined
             ELSE IF row.dflt_value.text = <<"NULL">> THEN DvNull
             ELSE DvString(row.dflt_value.text)
      dv1 == IF row.type = "TINYINT(1)" THEN booleanDefault(dv0) ELSE dv0
      dv2 == IF dv1.t = "string" THEN DvString(stripQuotes(dv1.text)) ELSE dv1
  IN [name |-> row.name, type |-> row.type, allowNull |-> (row.notnull = 0),
      defaultValue |-> dv2, primaryKey |-> (row.pk # 0)]

\* result[_result.name] = ... for each row: a later row of the same name
\* replaces the entry
RECURSIVE tableInfoResult(_, _)
tableInfoResult(rows, acc) ==
  IF Len(rows) = 0 THEN acc
  ELSE LET e == tableInfoEntry(rows[1])
           at == IF \E i \in 1..Len(acc) : acc[i].name = e.name
                 THEN CHOOSE i \in 1..Len(acc) : acc[i].name = e.name ELSE 0
       IN tableInfoResult(Tail(rows),
            IF at = 0 THEN Append(acc, e) ELSE [acc EXCEPT ![at] = e])

\* what _handleQueryResponse hands back: a returned value, a thrown
\* EmptyResultError, or the index rows to shape with follow-up runs
Value(shape, first, second, rows, meta) ==
  [shape |-> shape, first |-> first, second |-> second, rows |-> rows, meta |-> meta]
NoValue == Value("none", "none", NoNum, <<>>, ZeroMeta)

Return(value, inst) == [outcome |-> "return", value |-> value, inst |-> inst]
Throw(inst) == [outcome |-> "EmptyResultError", value |-> NoValue, inst |-> inst]
ShowIndexes(rows, inst) ==
  [outcome |-> "showIndexes", value |-> Value("indexes", "none", NoNum, rows, ZeroMeta),
   inst |-> inst]

\* (mutation of isEmptyInsert: the upsert exclusion is dropped and updates
\* are included)
isEmptyInsert_AnyMutation(o, rows) == Len(rows) = 0

\* this.isInsertQuery() && !this.isUpsertQuery() && results.length === 0
isEmptyInsert(o, rows) ==
  isInsertQuery(o) /\ ~isUpsertQuery(o) /\ Len(rows) = 0

\* (mutation of upsertPair: the second element is a count)
upsertPair_Count(inst) ==
  Value("pair", IF inst.present THEN "instance" ELSE "undefined", Num(0), <<>>, ZeroMeta)

\* return [this.instance, null] (query.js 84)
upsertPair(inst) ==
  Value("pair", IF inst.present THEN "instance" ELSE "undefined", Null, <<>>, ZeroMeta)

handleQueryResponse(o, sql, inst, metaData, results) ==
  IF isInsertQuery(o) \/ isUpdateQuery(o) \/ isUpsertQuery(o)
  THEN IF inst.present /\ isEmptyInsert(o, results)
       THEN Throw(inst)
       ELSE LET inst2 == IF inst.present /\ Len(results) > 0
                         THEN applyRow(inst, results[1]) ELSE inst
                first == IF inst.present THEN "instance"
                         ELSE IF o.plain /\ Len(results) > 0 THEN "row"
                         ELSE "rows"
                rows == IF first = "row" THEN <<results[1]>>
                        ELSE IF first = "rows" THEN results ELSE <<>>
            IN IF isUpsertQuery(o)
               THEN Return(upsertPair(inst), inst2)
               ELSE Return(Value("pair", first,
                                 IF o.returning THEN Num(Len(results))
                                 ELSE Num(metaData.changes), rows, ZeroMeta), inst2)
  ELSE IF isBulkUpdateQuery(o)
  THEN IF o.returning
       THEN Return(Value("records", "none", NoNum, handleSelectQuery(results), ZeroMeta), inst)
       ELSE Return(Value("count", "none", Num(metaData.changes), <<>>, ZeroMeta), inst)
  ELSE IF isDeleteQuery(o)
  THEN Return(Value("count", "none", Num(metaData.changes), <<>>, ZeroMeta), inst)
  ELSE IF isShowConstraintsQuery(o)
  THEN Return(Value("rows", "none", NoNum, results, ZeroMeta), inst)
  ELSE IF isSelectQuery(o)
  THEN Return(Value("records", "none", NoNum, handleSelectQuery(results), ZeroMeta), inst)
  ELSE IF isShowOrDescribeQuery(o)
  THEN Return(Value("rows", "none", NoNum, results, ZeroMeta), inst)
  ELSE IF Includes(sql, INDEX_LIST)
  THEN ShowIndexes(results, inst)
  ELSE IF Includes(sql, INDEX_INFO)
  THEN Return(Value("rows", "none", NoNum, results, ZeroMeta), inst)
  ELSE IF Includes(sql, TABLE_INFO)
  THEN Return(Value("table", "none", NoNum, tableInfoResult(results, <<>>), ZeroMeta), inst)
  ELSE IF isRawQuery(o)
  THEN Return(Value("rawPair", "rows", NoNum, results, metaData), inst)
  ELSE Return(Value("instance", IF inst.present THEN "instance" ELSE "undefined",
                    NoNum, <<>>, ZeroMeta), inst)

(***************************************************************************)
(* State.                                                                  *)
(***************************************************************************)
VARIABLES
  \* the error classifier on its own
  fErr,      \* the raw engine error handed to formatError
  fModel,    \* this.model of the query object classifying it
  fPc,       \* "ready" before the call, "done" after it
  fOut,      \* what formatError returned (or threw)
  fOut2,     \* what a second call on the same error returned (or threw)
  \* one TursoQuery object and the runs started on it
  qOpts,     \* this.options: type, returning, plain
  qSql,      \* this.sql
  qParams,   \* the parameters argument of the caller's run
  qInst,     \* this.instance
  items,     \* the index rows being shaped by handleShowIndexesQuery
  rPc,       \* per run: where its promise chain stands
  rSql,      \* per run: the sql argument
  rMethod,   \* per run: the method chosen at its start
  rArgs,     \* per run: the arguments spread into the engine call
  rStmt,     \* per run: "none", or its prepared statement "open" / "closed"
  rEngRows,  \* per run: the rows stmt.all resolved to
  rEngRes,   \* per run: what stmt.run resolved to
  rResp,     \* per run: what the series function returned
  rRaw,      \* per run: the raw error its engine step raised
  rErrSql,   \* per run: the sql property set on the raw error
  rErr,      \* per run: the error its promise rejected with
  rValue,    \* per run: the value its promise resolved to
  \* one TursoConnectionManager and one connect call on it
  cPool,     \* this.sequelize.pool: the write pool's settings, read pool
  cDialect,  \* this.dialect.options: foreignKeys, tursoModule
  cOpts,     \* the options argument of connect
  cLib,      \* this.#lib: "none" or the driver module
  cPc,       \* where the connect call stands
  cCalls,    \* the calls made to the driver's connect, in order
  cConn,     \* the engine connection the driver handed out
  cOut,      \* how the promise of connect settled
  \* the parameter binder on its own
  bSql,      \* the SQL text
  bParams,   \* the parameters argument as the caller gave it
  bPc,       \* "ready", then "bound" or "converted"
  bArgs,     \* the arguments run spreads into the engine call
  bDirect,   \* what _convertNamedParamsToPositional returned for bParams
  \* the driver loader: module state, managers and their connect calls
  lCached,     \* cachedDefaultModule: 0, or the import that produced it
  lPromise,    \* defaultModulePromise: 0, or the import it belongs to
  lImports,    \* the imports of the driver started so far, and their state
  lLib,        \* per manager: this.#lib, 0 or the module
  lLibPromise, \* per manager: this.#libPromise, 0 or a promise of lProms
  lProms,      \* the promises created for #libPromise so far
  lCallers,    \* the connect calls awaiting this.#getLib(), and their outcome
  \* one engine connection and the disconnect calls made on it
  dFlag,       \* connection[CLOSED_SYMBOL]
  dCloses,     \* how many times close() was invoked on the engine connection
  dCalls,      \* the disconnect calls so far, and where each stands
  dValid       \* what the last validate(connection) returned

fvars == <<fErr, fModel, fPc, fOut, fOut2>>
qvars == <<qOpts, qSql, qParams, qInst, items, rPc, rSql, rMethod, rArgs, rStmt,
           rEngRows, rEngRes, rResp, rRaw, rErrSql, rErr, rValue>>
cvars == <<cPool, cDialect, cOpts, cLib, cPc, cCalls, cConn, cOut>>
bvars == <<bSql, bParams, bPc, bArgs, bDirect>>
lvars == <<lCached, lPromise, lImports, lLib, lLibPromise, lProms, lCallers>>
dvars == <<dFlag, dCloses, dCalls, dValid>>
vars == <<fvars, qvars, cvars, bvars, lvars, dvars>>

NoRaw == [code |-> NoCode, hasMessage |-> FALSE, message |-> <<>>]
NoOut == Thrown("<none>")
NoRes == [changes |-> 0, hasRowid |-> FALSE, lastInsertRowid |-> 0]
NoResp == [statement |-> ZeroMeta, results |-> <<>>]
NoSql == <<>>

\* run 0 is the call made by the caller; runs 1..MaxIdx are the follow-up
\* calls of handleShowIndexesQuery, one per index row
RunIds == 0..MaxIdx

\* this.model of the query object (read by formatError)
RunModel ==
  [present |-> TRUE,
   indexes |-> <<[unique |-> TRUE, fields |-> <<<<"email">>>>, msg |-> "email taken"]>>]

EmptyResultError == Classified("EmptyResult", <<>>, "", <<>>, NoRaw)

FmtIdle ==
  /\ fErr = NoRaw
  /\ fModel = NoModel
  /\ fPc = "off"
  /\ fOut = NoOut
  /\ fOut2 = NoOut

RunIdle ==
  /\ qOpts = [type |-> "Raw", returning |-> FALSE, plain |-> FALSE]
  /\ qSql = NoSql
  /\ qParams = NoParams
  /\ qInst = NoInstance
  /\ items = <<>>
  /\ rPc = [r \in RunIds |-> "off"]
  /\ rSql = [r \in RunIds |-> NoSql]
  /\ rMethod = [r \in RunIds |-> "none"]
  /\ rArgs = [r \in RunIds |-> <<>>]
  /\ rStmt = [r \in RunIds |-> "none"]
  /\ rEngRows = [r \in RunIds |-> <<>>]
  /\ rEngRes = [r \in RunIds |-> NoRes]
  /\ rResp = [r \in RunIds |-> NoResp]
  /\ rRaw = [r \in RunIds |-> NoRaw]
  /\ rErrSql = [r \in RunIds |-> NoSql]
  /\ rErr = [r \in RunIds |-> NoOut]
  /\ rValue = [r \in RunIds |-> NoValue]

NoConn == [opened |-> FALSE, target |-> "", authToken |-> "", filename |-> "",
           execs |-> <<>>, closed |-> FALSE]
Pending == [status |-> "pending", kind |-> "", message |-> ""]

ConnIdle ==
  /\ cPool = [idleTimeoutMillis |-> "Infinity", maxUsesPerResource |-> "Infinity",
              maxSize |-> 1, read |-> FALSE]
  /\ cDialect = [foreignKeys |-> TRUE, tursoModule |-> FALSE]
  /\ cOpts = [url |-> "", authToken |-> "", storage |-> ":memory:",
              password |-> "", enableWal |-> TRUE]
  /\ cLib = "none"
  /\ cPc = "off"
  /\ cCalls = <<>>
  /\ cConn = NoConn
  /\ cOut = Pending

\* the managers of the loader model
MaxManagers == 2
Managers == 1..MaxManagers

LoadIdle ==
  /\ lCached = 0
  /\ lPromise = 0
  /\ lImports = <<>>
  /\ lLib = [m \in Managers |-> 0]
  /\ lLibPromise = [m \in Managers |-> 0]
  /\ lProms = <<>>
  /\ lCallers = <<>>

DiscIdle ==
  /\ dFlag = FALSE
  /\ dCloses = 0
  /\ dCalls = <<>>
  /\ dValid = "none"

BindIdle ==
  /\ bSql = NoSql
  /\ bParams = NoParams
  /\ bPc = "off"
  /\ bArgs = <<>>
  /\ bDirect = <<>>

(***************************************************************************)
(* The error classifier on its own: formatError applied to a raw error.    *)
(***************************************************************************)
FmtInit ==
  /\ LoadIdle
  /\ DiscIdle
  /\ fErr \in RawErrors
  /\ fModel \in Models
  /\ fPc = "ready"
  /\ fOut = NoOut
  /\ fOut2 = NoOut
  /\ RunIdle
  /\ ConnIdle
  /\ BindIdle

\* (mutation of errAfterFormatError: the message is consumed by the call)
errAfterFormatError_Consumed(e) == [e EXCEPT !.message = <<>>]

\* the raw error as formatError leaves it: the function reads err.code and
\* err.message, builds its lists in locals, and assigns no property of err
errAfterFormatError(e) == e

\* formatError(err) is called
Classify ==
  /\ fPc = "ready"
  /\ fOut' = formatError(fErr, fModel)
  /\ fErr' = errAfterFormatError(fErr)
  /\ fPc' = "done"
  /\ UNCHANGED <<lvars, dvars, fModel, fOut2, qvars, cvars, bvars>>

\* formatError is called once more, on the same error object
ClassifyAgain ==
  /\ fPc = "done"
  /\ fOut2' = formatError(fErr, fModel)
  /\ fErr' = errAfterFormatError(fErr)
  /\ fPc' = "again"
  /\ UNCHANGED <<lvars, dvars, fModel, fOut, qvars, cvars, bvars>>

FmtNext ==
  \/ Classify
  \/ ClassifyAgain

SpecFmt == FmtInit /\ [][FmtNext]_vars

(***************************************************************************)
(* TursoQuery.run (query.js 165-262, 360-380).                             *)
(*                                                                         *)
(* A run advances in the steps its awaits cut it into:                     *)
(*   idle -> awaitEngine | seriesThrew      run up to the engine call      *)
(*   awaitEngine -> engineResolved | engineRejected   the engine answers   *)
(*   engine... -> seriesReturned | seriesThrew        finally, stmt.close  *)
(*   series... -> resolved | rejected | awaitAll      catch / shaping      *)
(*   awaitAll -> resolved | rejected                  Promise.all          *)
(***************************************************************************)
RunInit ==
  /\ LoadIdle
  /\ DiscIdle
  /\ FmtIdle
  /\ ConnIdle
  /\ BindIdle
  /\ qOpts \in [type : QueryTypes, returning : BOOLEAN, plain : BOOLEAN]
  /\ qInst \in {NoInstance, NewInstance}
  /\ qSql = NoSql
  /\ qParams = NoParams
  /\ items = <<>>
  /\ rPc = [r \in RunIds |-> IF r = 0 THEN "idle" ELSE "off"]
  /\ rSql = [r \in RunIds |-> NoSql]
  /\ rMethod = [r \in RunIds |-> "none"]
  /\ rArgs = [r \in RunIds |-> <<>>]
  /\ rStmt = [r \in RunIds |-> "none"]
  /\ rEngRows = [r \in RunIds |-> <<>>]
  /\ rEngRes = [r \in RunIds |-> NoRes]
  /\ rResp = [r \in RunIds |-> NoResp]
  /\ rRaw = [r \in RunIds |-> NoRaw]
  /\ rErrSql = [r \in RunIds |-> NoSql]
  /\ rErr = [r \in RunIds |-> NoOut]
  /\ rValue = [r \in RunIds |-> NoValue]

\* (mutation of finallyClose: the statement is closed only when the engine
\* call returned)
finallyClose_OnReturn(st, r, returned) ==
  IF returned THEN [st EXCEPT ![r] = "closed"] ELSE st

\* finally { stmt.close() } of allSeries / runSeries (query.js 233-235,
\* 259-261)
finallyClose(st, r, returned) == [st EXCEPT ![r] = "closed"]

\* run(sql, parameters) up to its first await (query.js 166-196, 211-224,
\* 238-250): this.sql is set, the method chosen, the parameters normalised,
\* the statement prepared and the engine called; connection.prepare may
\* throw, and then no statement exists
StartRun(sql, parameters) ==
  /\ rPc[0] = "idle"
  /\ qSql' = sql
  /\ qParams' = parameters
  /\ rSql' = [rSql EXCEPT ![0] = sql]
  /\ rMethod' = [rMethod EXCEPT ![0] = getDatabaseMethod(qOpts, sql)]
  /\ \/ /\ rStmt' = [rStmt EXCEPT ![0] = "open"]
        /\ rArgs' = [rArgs EXCEPT ![0] =
                       engineArguments(sql, normalizeParameters(parameters))]
        /\ rPc' = [rPc EXCEPT ![0] = "awaitEngine"]
        /\ UNCHANGED rRaw
     \/ /\ \E e \in PrepareErrors : rRaw' = [rRaw EXCEPT ![0] = e]
        /\ rPc' = [rPc EXCEPT ![0] = "seriesThrew"]
        /\ UNCHANGED <<rStmt, rArgs>>
  /\ UNCHANGED <<lvars, dvars, bvars, cvars, fvars, qOpts, qInst, items, rEngRows, rEngRes, rResp,
                 rErrSql, rErr, rValue>>

\* the requests made of a query object: a PRAGMA is run without parameters,
\* without a target instance and without the returning / plain options, and
\* never as an insert, update or upsert
IsPragma(sql) == Includes(sql, INDEX_LIST) \/ Includes(sql, TABLE_INFO)
ValidRequest(o, inst, sql, parameters) ==
  IsPragma(sql) =>
    /\ ~(isInsertQuery(o) \/ isUpdateQuery(o) \/ isUpsertQuery(o))
    /\ ~o.returning /\ ~o.plain /\ ~inst.present
    /\ parameters = NoParams

Start ==
  \E sql \in SqlTexts, parameters \in ParamSets :
    /\ ValidRequest(qOpts, qInst, sql, parameters)
    /\ StartRun(sql, parameters)

\* the promise of stmt.all / stmt.run resolves
EngineResolve(r) ==
  /\ rPc[r] = "awaitEngine"
  /\ \/ /\ rMethod[r] = "all"
        /\ \E rows \in AllResults(rSql[r]) : rEngRows' = [rEngRows EXCEPT ![r] = rows]
        /\ UNCHANGED rEngRes
     \/ /\ rMethod[r] = "run"
        /\ \E res \in RunResults : rEngRes' = [rEngRes EXCEPT ![r] = res]
        /\ UNCHANGED rEngRows
  /\ rPc' = [rPc EXCEPT ![r] = "engineResolved"]
  /\ UNCHANGED <<lvars, dvars, bvars, cvars, fvars, qOpts, qParams, qSql, qInst, items, rSql, rMethod, rArgs, rStmt,
                 rResp, rRaw, rErrSql, rErr, rValue>>

\* the promise of stmt.all / stmt.run rejects
EngineReject(r) ==
  /\ rPc[r] = "awaitEngine"
  /\ \E e \in RunErrors : rRaw' = [rRaw EXCEPT ![r] = e]
  /\ rPc' = [rPc EXCEPT ![r] = "engineRejected"]
  /\ UNCHANGED <<lvars, dvars, bvars, cvars, fvars, qOpts, qParams, qSql, qInst, items, rSql, rMethod, rArgs, rStmt,
                 rEngRows, rEngRes, rResp, rErrSql, rErr, rValue>>

\* allSeries / runSeries after the await: the response is built or the
\* error passes through, and the finally block closes the statement
\* (query.js 226-235, 252-261)
SeriesExit(r) ==
  /\ rPc[r] \in {"engineResolved", "engineRejected"}
  /\ rStmt' = finallyClose(rStmt, r, rPc[r] = "engineResolved")
  /\ IF rPc[r] = "engineResolved"
     THEN /\ rResp' = [rResp EXCEPT ![r] =
                         IF rMethod[r] = "run"
                         THEN [statement |-> RunMeta(rEngRes[r]), results |-> <<>>]
                         ELSE [statement |-> ZeroMeta, results |-> rEngRows[r]]]
          /\ rPc' = [rPc EXCEPT ![r] = "seriesReturned"]
     ELSE /\ rPc' = [rPc EXCEPT ![r] = "seriesThrew"]
          /\ UNCHANGED rResp
  /\ UNCHANGED <<lvars, dvars, bvars, cvars, fvars, qOpts, qParams, qSql, qInst, items, rSql, rMethod, rArgs,
                 rEngRows, rEngRes, rRaw, rErrSql, rErr, rValue>>

\* Promise.all rejects with the first rejection among the follow-up runs:
\* the pc and error of run 0 once follow-up run r has rejected with e
AllRejectPc(pc, r) ==
  IF r # 0 /\ pc[0] = "awaitAll" THEN [pc EXCEPT ![0] = "rejected"] ELSE pc
AllRejectErr(err, pc, r, e) ==
  IF r # 0 /\ pc[0] = "awaitAll" THEN [err EXCEPT ![0] = e] ELSE err

\* (mutation of annotatedSql: the sql argument of the run is used)
annotatedSql_OfRun(thisSql, runSql) == runSql

\* error.sql = this.sql (query.js 199)
annotatedSql(thisSql, runSql) == thisSql

\* the catch block of executeSql (query.js 198-201): the raw error gets the
\* sql property and the run rejects with what formatError returns (or with
\* what formatError throws)
RunCatch(r) ==
  /\ rPc[r] = "seriesThrew"
  /\ rErrSql' = [rErrSql EXCEPT ![r] = annotatedSql(qSql, rSql[r])]
  /\ LET e == formatError(rRaw[r], RunModel)
     IN /\ rErr' = AllRejectErr([rErr EXCEPT ![r] = e], rPc, r, e)
        /\ rPc' = AllRejectPc([rPc EXCEPT ![r] = "rejected"], r)
  /\ UNCHANGED <<lvars, dvars, bvars, cvars, fvars, qOpts, qParams, qSql, qInst, items, rSql, rMethod, rArgs, rStmt,
                 rEngRows, rEngRes, rResp, rRaw, rValue>>

\* what _handleQueryResponse does with the response of run r
Shaped(r) ==
  handleQueryResponse(qOpts, qSql, qInst, rResp[r].statement, rResp[r].results)

\* executeSql after the await, run 0 (query.js 203-205): the shaped value
\* is returned
RunReturn ==
  /\ rPc[0] = "seriesReturned"
  /\ Shaped(0).outcome = "return"
  /\ rValue' = [rValue EXCEPT ![0] = Shaped(0).value]
  /\ qInst' = Shaped(0).inst
  /\ rPc' = [rPc EXCEPT ![0] = "resolved"]
  /\ UNCHANGED <<lvars, dvars, bvars, cvars, fvars, qOpts, qParams, qSql, items, rSql, rMethod, rArgs, rStmt,
                 rEngRows, rEngRes, rResp, rRaw, rErrSql, rErr>>

\* executeSql after the await: _handleQueryResponse throws EmptyResultError
\* (query.js 62-64)
RunThrowEmpty(r) ==
  /\ rPc[r] = "seriesReturned"
  /\ Shaped(r).outcome = "EmptyResultError"
  /\ rErr' = AllRejectErr([rErr EXCEPT ![r] = EmptyResultError], rPc, r,
                          EmptyResultError)
  /\ rPc' = AllRejectPc([rPc EXCEPT ![r] = "rejected"], r)
  /\ UNCHANGED <<lvars, dvars, bvars, cvars, fvars, qOpts, qParams, qSql, qInst, items, rSql, rMethod, rArgs, rStmt,
                 rEngRows, rEngRes, rResp, rRaw, rErrSql, rValue>>

\* (mutation of Reverse: the rows are kept in the engine's order)
Reverse_Keep(seq) == seq

\* data.reverse()
RECURSIVE Reverse(_)
Reverse(seq) ==
  IF Len(seq) = 0 THEN <<>> ELSE Reverse(Tail(seq)) \o <<seq[1]>>

\* the item fields set before the follow-up run (query.js 364-367)
NewItem(row) ==
  [name |-> row.name, fields |-> <<>>, primary |-> FALSE,
   unique |-> (row.unique # 0), constraintName |-> row.name]

\* executeSql after the await, for PRAGMA INDEX_LIST (query.js 113-115,
\* 360-368): the rows are reversed and, in the same turn, one follow-up run
\* per row is started on this query object up to its engine call; each sets
\* this.sql; connection.prepare may throw for any of them
ShowIndexesStart ==
  /\ rPc[0] = "seriesReturned"
  /\ Shaped(0).outcome = "showIndexes"
  /\ LET data == Reverse(Shaped(0).value.rows)
         n == Len(data)
         sqlOf(i) == IndexInfoSql(data[i].name)
     IN /\ items' = [i \in 1..n |-> NewItem(data[i])]
        /\ qSql' = IF n = 0 THEN qSql ELSE sqlOf(n)
        /\ rSql' = [r \in RunIds |-> IF r \in 1..n THEN sqlOf(r) ELSE rSql[r]]
        /\ rMethod' = [r \in RunIds |->
                         IF r \in 1..n THEN getDatabaseMethod(qOpts, sqlOf(r))
                         ELSE rMethod[r]]
        /\ rArgs' = [r \in RunIds |->
                       IF r \in 1..n THEN engineArguments(sqlOf(r), normalizeParameters(NoParams))
                       ELSE rArgs[r]]
        /\ \E prepared \in SUBSET (1..n) :
             /\ rStmt' = [r \in RunIds |-> IF r \in prepared THEN "open" ELSE rStmt[r]]
             /\ \E e \in PrepareErrors :
                  rRaw' = [r \in RunIds |->
                             IF r \in (1..n) \ prepared THEN e ELSE rRaw[r]]
             /\ rPc' = [r \in RunIds |->
                          IF r \in prepared THEN "awaitEngine"
                          ELSE IF r \in 1..n THEN "seriesThrew"
                          ELSE IF r = 0 THEN (IF n = 0 THEN "resolved" ELSE "awaitAll")
                          ELSE rPc[r]]
        /\ rValue' = IF n = 0
                     THEN [rValue EXCEPT ![0] = Value("indexes", "none", NoNum, <<>>, ZeroMeta)]
                     ELSE rValue
  /\ qInst' = Shaped(0).inst
  /\ UNCHANGED <<lvars, dvars, bvars, cvars, fvars, qOpts, qParams, rEngRows, rEngRes, rResp, rErrSql, rErr>>

\* item.fields[column.seqno] = {attribute: column.name, ...}: an array
\* assignment, which lengthens the array as needed and leaves holes
PutAt(fields, seqno, attribute) ==
  [k \in 1..(IF seqno + 1 > Len(fields) THEN seqno + 1 ELSE Len(fields)) |->
     IF k = seqno + 1 THEN attribute
     ELSE IF k <= Len(fields) THEN fields[k] ELSE "<empty>"]

RECURSIVE putColumns(_, _)
putColumns(fields, columns) ==
  IF Len(columns) = 0 THEN fields
  ELSE putColumns(PutAt(fields, columns[1].seqno, columns[1].name), Tail(columns))

\* a follow-up run returns (query.js 203-205, 117-119) and the map callback
\* goes on (query.js 369-377): the columns are placed on the item; when it
\* was the last item outstanding, Promise.all resolves run 0 with the items
FollowUpReturn(r) ==
  /\ r # 0
  /\ rPc[r] = "seriesReturned"
  /\ Shaped(r).outcome = "return"
  /\ LET last == /\ rPc[0] = "awaitAll"
                 /\ \A k \in 1..Len(items) : k # r => rPc[k] = "resolved"
         done == [items EXCEPT ![r].fields = putColumns(@, Shaped(r).value.rows)]
     IN /\ items' = done
        /\ rValue' = [rValue EXCEPT
                        ![r] = Shaped(r).value,
                        ![0] = IF last
                               THEN Value("indexes", "none", NoNum, done, ZeroMeta)
                               ELSE @]
        /\ rPc' = [rPc EXCEPT ![r] = "resolved",
                              ![0] = IF last THEN "resolved" ELSE @]
  /\ qInst' = Shaped(r).inst
  /\ UNCHANGED <<lvars, dvars, bvars, cvars, fvars, qOpts, qParams, qSql, rSql, rMethod, rArgs, rStmt,
                 rEngRows, rEngRes, rResp, rRaw, rErrSql, rErr>>

RunNext ==
  \/ Start
  \/ \E r \in RunIds : EngineResolve(r)
  \/ \E r \in RunIds : EngineReject(r)
  \/ \E r \in RunIds : SeriesExit(r)
  \/ \E r \in RunIds : RunCatch(r)
  \/ RunReturn
  \/ \E r \in RunIds : RunThrowEmpty(r)
  \/ ShowIndexesStart
  \/ \E r \in RunIds : FollowUpReturn(r)

Spec == RunInit /\ [][RunNext]_vars

(***************************************************************************)
(* TursoConnectionManager.connect (connection-manager.ts 128-274).         *)
(*                                                                         *)
(* One connect call advances in the steps its awaits cut it into:          *)
(*   idle -> awaitLib                         await this.#getLib()         *)
(*   awaitLib -> awaitRemote | awaitDirCheck | awaitConnect | done         *)
(*   awaitDirCheck -> awaitMkdir | awaitConnect                            *)
(*   awaitMkdir -> awaitConnect | done                                     *)
(*   awaitRemote -> done                                                   *)
(*   awaitConnect -> awaitKey | awaitFk | awaitWal | done                  *)
(*   awaitKey -> awaitFk | awaitWal | done                                 *)
(*   awaitFk -> awaitWal | done                                            *)
(*   awaitWal -> done                                                      *)
(***************************************************************************)
Infinity == "Infinity"

\* options.storage left out
NoStorage == "<undefined>"

\* path.join(process.cwd(), 'sequelize.turso')
DefaultStorage == "<cwd>/sequelize.turso"

StorageTargets == {NoStorage, ":memory:", "", "data/app.sqlite"}

PoolConfigs ==
  [idleTimeoutMillis : {Infinity, "10000"},
   maxUsesPerResource : {Infinity, "100"},
   maxSize : {1, 5},
   read : BOOLEAN]

\* foreignKeys: FALSE is the option set to false, TRUE anything else;
\* tursoModule: whether a driver module was injected
DialectOptions == [foreignKeys : BOOLEAN, tursoModule : BOOLEAN]

\* "" stands for a string option left out; enableWal: FALSE is the option
\* set to false, TRUE anything else
ConnectOptions ==
  [url : {"", "libsql://db.turso.io"},
   authToken : {"", "token"},
   storage : StorageTargets,
   password : {"", "secret"},
   enableWal : BOOLEAN]

LoadErrorCodes == {"ERR_MODULE_NOT_FOUND", "MODULE_NOT_FOUND", "ERR_DLOPEN_FAILED"}

Rejected(kind, message) == [status |-> "rejected", kind |-> kind, message |-> message]
Resolved == [status |-> "resolved", kind |-> "connection", message |-> ""]

\* const isRemote = Boolean(options.url)
isRemote(options) == options.url # ""

\* options.storage ?? path.join(process.cwd(), 'sequelize.turso')
storageOf(options) ==
  IF options.storage = NoStorage THEN DefaultStorage ELSE options.storage

\* inMemory || storage === ''
isTemporaryStorage(storage) == storage = ":memory:" \/ storage = ""

\* (mutation of temporaryStorageGuard: the size of the write pool is not
\* looked at)
temporaryStorageGuard_NoMaxSize(pool) ==
  IF pool.idleTimeoutMillis # Infinity THEN "idleTimeoutMillis"
  ELSE IF pool.maxUsesPerResource # Infinity THEN "maxUsesPerResource"
  ELSE IF pool.read THEN "readReplication"
  ELSE ""

\* the four checks made for a temporary storage: the setting the Error
\* thrown complains about, "" when nothing is thrown
temporaryStorageGuard(pool) ==
  IF pool.idleTimeoutMillis # Infinity THEN "idleTimeoutMillis"
  ELSE IF pool.maxUsesPerResource # Infinity THEN "maxUsesPerResource"
  ELSE IF pool.maxSize # 1 THEN "maxSize"
  ELSE IF pool.read THEN "readReplication"
  ELSE ""

DriverCall(target, authToken) == [target |-> target, authToken |-> authToken]

\* (mutation of missingAuthToken: the token is never found missing)
missingAuthToken_Never(options) == FALSE

\* !options.authToken (connection-manager.ts 174)
missingAuthToken(options) == options.authToken = ""

\* connect from the driver module in hand up to its next await: where the
\* call stands, how it settled, and the call it made to the driver
afterLib(options, pool) ==
  IF isRemote(options)
  THEN IF missingAuthToken(options)
       THEN [pc |-> "done", out |-> Rejected("Error", "authToken is required"),
             calls |-> <<>>]
       ELSE [pc |-> "awaitRemote", out |-> Pending,
             calls |-> <<DriverCall(options.url, options.authToken)>>]
  ELSE LET storage == storageOf(options)
           complaint == IF isTemporaryStorage(storage)
                        THEN temporaryStorageGuard(pool) ELSE ""
       IN IF complaint # ""
          THEN [pc |-> "done", out |-> Rejected("Error", complaint), calls |-> <<>>]
          ELSE IF ~isTemporaryStorage(storage)
          THEN [pc |-> "awaitDirCheck", out |-> Pending, calls |-> <<>>]
          ELSE [pc |-> "awaitConnect", out |-> Pending,
                calls |-> <<DriverCall(storage, "")>>]

PragmaKey == "PRAGMA KEY"
PragmaForeignKeys == "PRAGMA foreign_keys = ON"
PragmaWal == "PRAGMA journal_mode = WAL"

\* (mutation of setupAfter: the WAL step is left out)
setupAfter_NoWal(step, options, dialect) ==
  IF step = "awaitConnect" /\ options.password # "" THEN "awaitKey"
  ELSE IF step \in {"awaitConnect", "awaitKey"} /\ dialect.foreignKeys
  THEN "awaitFk"
  ELSE "return"

\* the setup step that follows step, "return" when none is left
setupAfter(step, options, dialect) ==
  IF step = "awaitConnect" /\ options.password # "" THEN "awaitKey"
  ELSE IF step \in {"awaitConnect", "awaitKey"} /\ dialect.foreignKeys
  THEN "awaitFk"
  ELSE IF /\ step \in {"awaitConnect", "awaitKey", "awaitFk"}
          /\ options.enableWal /\ ~isRemote(options)
  THEN "awaitWal"
  ELSE "return"

PragmaOf(step) ==
  CASE step = "awaitKey" -> PragmaKey
    [] step = "awaitFk" -> PragmaForeignKeys
    [] step = "awaitWal" -> PragmaWal

\* tursoConnection.exec(sql) is called
exec(conn, sql) ==
  [conn EXCEPT !.execs = Append(@, [sql |-> sql, status |-> "pending"])]

\* the exec in flight settles
execSettled(conn, status) ==
  [conn EXCEPT !.execs[Len(conn.execs)].status = status]

ConnInit ==
  /\ LoadIdle
  /\ DiscIdle
  /\ FmtIdle
  /\ RunIdle
  /\ BindIdle
  /\ cPool \in PoolConfigs
  /\ cDialect \in DialectOptions
  /\ cOpts \in ConnectOptions
  /\ cLib = IF cDialect.tursoModule THEN "injected" ELSE "none"
  /\ cPc = "idle"
  /\ cCalls = <<>>
  /\ cConn = NoConn
  /\ cOut = Pending

\* connect is called: lib = await this.#getLib()
ConnStart ==
  /\ cPc = "idle"
  /\ cPc' = "awaitLib"
  /\ UNCHANGED <<lvars, dvars, bvars, fvars, qvars, cPool, cDialect, cOpts, cLib, cCalls, cConn, cOut>>

\* #getLib resolves, with the injected module or the one just imported
LibLoaded ==
  /\ cPc = "awaitLib"
  /\ cLib' = IF cLib = "none" THEN "default" ELSE cLib
  /\ LET a == afterLib(cOpts, cPool)
     IN /\ cPc' = a.pc
        /\ cOut' = a.out
        /\ cCalls' = cCalls \o a.calls
  /\ UNCHANGED <<lvars, dvars, bvars, fvars, qvars, cPool, cDialect, cOpts, cConn>>

\* the import of the default module fails
LibFailed ==
  /\ cPc = "awaitLib"
  /\ cLib = "none"
  /\ \E code \in LoadErrorCodes :
       cOut' = IF code \in {"ERR_MODULE_NOT_FOUND", "MODULE_NOT_FOUND"}
               THEN Rejected("Error", "Unable to load @tursodatabase/database")
               ELSE Rejected("ImportError", code)
  /\ cPc' = "done"
  /\ UNCHANGED <<lvars, dvars, bvars, fvars, qvars, cPool, cDialect, cOpts, cLib, cCalls, cConn>>

\* checkFileExists(storageDir) resolves
DirChecked ==
  /\ cPc = "awaitDirCheck"
  /\ \E exists \in BOOLEAN :
       IF exists
       THEN /\ cCalls' = Append(cCalls, DriverCall(storageOf(cOpts), ""))
            /\ cPc' = "awaitConnect"
       ELSE /\ cPc' = "awaitMkdir"
            /\ UNCHANGED cCalls
  /\ UNCHANGED <<lvars, dvars, bvars, fvars, qvars, cPool, cDialect, cOpts, cLib, cConn, cOut>>

\* fs.mkdir resolves
MkdirDone ==
  /\ cPc = "awaitMkdir"
  /\ cCalls' = Append(cCalls, DriverCall(storageOf(cOpts), ""))
  /\ cPc' = "awaitConnect"
  /\ UNCHANGED <<lvars, dvars, bvars, fvars, qvars, cPool, cDialect, cOpts, cLib, cConn, cOut>>

\* fs.mkdir rejects (outside the try block: the error is not wrapped)
MkdirFailed ==
  /\ cPc = "awaitMkdir"
  /\ cOut' = Rejected("FsError", "EACCES")
  /\ cPc' = "done"
  /\ UNCHANGED <<lvars, dvars, bvars, fvars, qvars, cPool, cDialect, cOpts, cLib, cCalls, cConn>>

\* the connection continues with the setup step after step, or is returned
proceed(conn, step) ==
  LET next == setupAfter(step, cOpts, cDialect)
  IN IF next = "return"
     THEN /\ cConn' = conn
          /\ cOut' = Resolved
          /\ cPc' = "done"
     ELSE /\ cConn' = exec(conn, PragmaOf(next))
          /\ cPc' = next
          /\ UNCHANGED cOut

\* lib.connect resolves
DriverResolved ==
  /\ cPc \in {"awaitRemote", "awaitConnect"}
  /\ LET call == cCalls[Len(cCalls)]
         db == [NoConn EXCEPT !.opened = TRUE, !.target = call.target,
                              !.authToken = call.authToken]
     IN IF cPc = "awaitRemote"
        THEN /\ cConn' = db
             /\ cOut' = Resolved
             /\ cPc' = "done"
        ELSE proceed([db EXCEPT !.filename = storageOf(cOpts)], "awaitConnect")
  /\ UNCHANGED <<lvars, dvars, bvars, fvars, qvars, cPool, cDialect, cOpts, cLib, cCalls>>

\* lib.connect rejects
DriverRejected ==
  /\ cPc \in {"awaitRemote", "awaitConnect"}
  /\ cOut' = Rejected("ConnectionError", "connect failed")
  /\ cPc' = "done"
  /\ UNCHANGED <<lvars, dvars, bvars, fvars, qvars, cPool, cDialect, cOpts, cLib, cCalls, cConn>>

\* the PRAGMA in flight resolves
ExecResolved ==
  /\ cPc \in {"awaitKey", "awaitFk", "awaitWal"}
  /\ proceed(execSettled(cConn, "ok"), cPc)
  /\ UNCHANGED <<lvars, dvars, bvars, fvars, qvars, cPool, cDialect, cOpts, cLib, cCalls>>

\* the PRAGMA in flight rejects: a failure of the WAL statement is logged
\* and dropped, any other is rethrown and wrapped
ExecRejected ==
  /\ cPc \in {"awaitKey", "awaitFk", "awaitWal"}
  /\ IF cPc = "awaitWal"
     THEN proceed(execSettled(cConn, "failed"), cPc)
     ELSE /\ cConn' = execSettled(cConn, "failed")
          /\ cOut' = Rejected("ConnectionError", "exec failed")
          /\ cPc' = "done"
  /\ UNCHANGED <<lvars, dvars, bvars, fvars, qvars, cPool, cDialect, cOpts, cLib, cCalls>>

ConnNext ==
  \/ ConnStart
  \/ LibLoaded
  \/ LibFailed
  \/ DirChecked
  \/ MkdirDone
  \/ MkdirFailed
  \/ DriverResolved
  \/ DriverRejected
  \/ ExecResolved
  \/ ExecRejected

SpecConn == ConnInit /\ [][ConnNext]_vars

(***************************************************************************)
(* The parameter binder on its own: the first part of executeSql (query.js *)
(* 172-189) followed by the argument list of #allSeries / #runSeries       *)
(* (query.js 217-224, 243-250), and _convertNamedParamsToPositional       *)
(* (query.js 264-295) called on a mapping as given.                        *)
(***************************************************************************)
MaxPositional == 2
MaxKeys == 2
MaxSqlLen == 3

\* parameter values of a positional list
BindValues ==
  {NumberValue("1"), NumberValue("40"), BigintValue("9223372036854775807"),
   StringValue("u"), NullValue}

\* parameter values of a named mapping
NamedValues == {NumberValue("40"), BigintValue("7"), StringValue("u")}

\* the keys of a named mapping: each name bare and with the sigil
ParamKeys == ParamNames \cup {Sigil(n) : n \in ParamNames}

\* SQL texts: plain text and placeholders in any arrangement
BindSqlTokens == {"SET x = ", Sigil("age"), Sigil("username")}
BindSqlTexts == SeqsUpTo(BindSqlTokens, MaxSqlLen)

PositionalLists == SeqsUpTo(BindValues, MaxPositional)

\* plain objects: entries in key order, no key twice
NamedMappings ==
  {m \in SeqsUpTo([key : ParamKeys, value : NamedValues], MaxKeys) :
     \A i, j \in 1..Len(m) : i # j => m[i].key # m[j].key}

BindParams ==
  {NoParams}
    \cup {ArrayParams(l) : l \in PositionalLists}
    \cup {NamedParams(m) : m \in NamedMappings}

BindInit ==
  /\ LoadIdle
  /\ DiscIdle
  /\ FmtIdle
  /\ RunIdle
  /\ ConnIdle
  /\ bSql \in BindSqlTexts
  /\ bParams \in BindParams
  /\ bPc = "ready"
  /\ bArgs = <<>>
  /\ bDirect = <<>>

\* run binds the parameters: normalisation, then the argument list the
\* series function spreads into stmt.all / stmt.run
Bind ==
  /\ bPc = "ready"
  /\ bArgs' = engineArguments(bSql, normalizeParameters(bParams))
  /\ bPc' = "bound"
  /\ UNCHANGED <<lvars, dvars, fvars, qvars, cvars, bSql, bParams, bDirect>>

\* _convertNamedParamsToPositional(query, namedParams) is called with the
\* mapping as given
Convert ==
  /\ bPc = "ready"
  /\ bParams.form = "named"
  /\ bDirect' = convertNamedParamsToPositional(bSql, bParams.list)
  /\ bPc' = "converted"
  /\ UNCHANGED <<lvars, dvars, fvars, qvars, cvars, bSql, bParams, bArgs>>

BindNext ==
  \/ Bind
  \/ Convert

SpecBind == BindInit /\ [][BindNext]_vars

(***************************************************************************)
(* Loading the default driver module (connection-manager.ts 13-34 and      *)
(* 136-154): connect calls on managers without an injected tursoModule.    *)
(* An import is named by its position in lImports, and the module it       *)
(* produces carries the same number.  Every callback of a promise chain is *)
(* a step of its own, and a connect call may start between any two steps.  *)
(***************************************************************************)
MaxCallers == 3
MaxImports == 2

\* a promise made for this.#libPromise: the manager, the import it depends
\* on (0 when the cached module was at hand), the module it is fulfilled
\* with, and its state
LibPromise(m, imp, module) ==
  [mgr |-> m, imp |-> imp, module |-> module, state |-> "pending"]

\* a connect call awaiting this.#getLib(): "on" is the promise of lProms it
\* was handed (0 when this.#lib was at hand), "late" tells whether what it
\* was handed had already failed when it called
Caller(m, on, module, late) ==
  [mgr |-> m, on |-> on, module |-> module, late |-> late,
   state |-> "waiting", failure |-> 0]

LoadInit ==
  /\ FmtIdle
  /\ RunIdle
  /\ ConnIdle
  /\ BindIdle
  /\ DiscIdle
  /\ LoadIdle

\* (mutation of cleared: the variable keeps the promise)
cleared_Keep(promise) == promise

\* defaultModulePromise = undefined, this.#libPromise = undefined
\* (connection-manager.ts 28, 148)
cleared(promise) == 0

\* loadDefaultTursoModule() up to its return (connection-manager.ts 16-33):
\* the cached module, or the promise in flight, or a new import
loadDefaultTursoModule ==
  IF lCached # 0
  THEN [imp |-> 0, module |-> lCached, fresh |-> FALSE]
  ELSE IF lPromise # 0
  THEN [imp |-> lPromise, module |-> 0, fresh |-> FALSE]
  ELSE [imp |-> Len(lImports) + 1, module |-> 0, fresh |-> TRUE]

\* connect on manager m calls this.#getLib() (connection-manager.ts 136-153,
\* 160): this.#lib, or the #libPromise in flight, or a new #libPromise made
\* from loadDefaultTursoModule()
GetLib(m) ==
  /\ Len(lCallers) < MaxCallers
  /\ IF lLib[m] # 0
     THEN /\ lCallers' = Append(lCallers, Caller(m, 0, lLib[m], FALSE))
          /\ UNCHANGED <<lPromise, lImports, lLibPromise, lProms>>
     ELSE IF lLibPromise[m] # 0
     THEN /\ lCallers' = Append(lCallers,
                                Caller(m, lLibPromise[m], 0,
                                       lProms[lLibPromise[m]].state = "rejected"))
          /\ UNCHANGED <<lPromise, lImports, lLibPromise, lProms>>
     ELSE LET load == loadDefaultTursoModule
              p == Len(lProms) + 1
          IN /\ load.fresh => Len(lImports) < MaxImports
             /\ lImports' = IF load.fresh THEN Append(lImports, "inflight") ELSE lImports
             /\ lPromise' = IF load.fresh THEN load.imp ELSE lPromise
             /\ lProms' = Append(lProms, LibPromise(m, load.imp, load.module))
             /\ lLibPromise' = [lLibPromise EXCEPT ![m] = p]
             /\ lCallers' = Append(lCallers,
                                   Caller(m, p, 0,
                                          /\ load.imp # 0
                                          /\ ~load.fresh
                                          /\ lImports[load.imp] = "rejected"))
  /\ UNCHANGED <<bvars, cvars, dvars, fvars, qvars, lCached, lLib>>

\* import('@tursodatabase/database') resolves
ImportResolved(k) ==
  /\ k \in 1..Len(lImports)
  /\ lImports[k] = "inflight"
  /\ lImports' = [lImports EXCEPT ![k] = "loaded"]
  /\ UNCHANGED <<bvars, cvars, dvars, fvars, qvars, lCached, lPromise, lLib, lLibPromise, lProms,
                 lCallers>>

\* import('@tursodatabase/database') rejects
ImportRejected(k) ==
  /\ k \in 1..Len(lImports)
  /\ lImports[k] = "inflight"
  /\ lImports' = [lImports EXCEPT ![k] = "failed"]
  /\ UNCHANGED <<bvars, cvars, dvars, fvars, qvars, lCached, lPromise, lLib, lLibPromise, lProms,
                 lCallers>>

\* the then callback of loadDefaultTursoModule (connection-manager.ts
\* 23-26): the module is cached and defaultModulePromise is fulfilled
ModuleThen(k) ==
  /\ k \in 1..Len(lImports)
  /\ lImports[k] = "loaded"
  /\ lCached' = k
  /\ lImports' = [lImports EXCEPT ![k] = "fulfilled"]
  /\ UNCHANGED <<bvars, cvars, dvars, fvars, qvars, lPromise, lLib, lLibPromise, lProms, lCallers>>

\* the catch callback of loadDefaultTursoModule (connection-manager.ts
\* 27-30): defaultModulePromise is cleared and the promise it held rejects
ModuleCatch(k) ==
  /\ k \in 1..Len(lImports)
  /\ lImports[k] = "failed"
  /\ lPromise' = cleared(lPromise)
  /\ lImports' = [lImports EXCEPT ![k] = "rejected"]
  /\ UNCHANGED <<bvars, cvars, dvars, fvars, qvars, lCached, lLib, lLibPromise, lProms, lCallers>>

\* what the promise returned by loadDefaultTursoModule() has settled to,
\* for the #libPromise p made from it
Loaded(p) ==
  IF lProms[p].imp = 0 THEN "fulfilled"
  ELSE IF lImports[lProms[p].imp] \in {"fulfilled", "rejected"}
  THEN lImports[lProms[p].imp]
  ELSE "pending"

\* the then callback of #getLib (connection-manager.ts 143-146): this.#lib
\* is set and the #libPromise is fulfilled
LibThen(p) ==
  /\ p \in 1..Len(lProms)
  /\ lProms[p].state = "pending"
  /\ Loaded(p) = "fulfilled"
  /\ LET module == IF lProms[p].imp = 0 THEN lProms[p].module ELSE lProms[p].imp
     IN /\ lLib' = [lLib EXCEPT ![lProms[p].mgr] = module]
        /\ lProms' = [lProms EXCEPT ![p].state = "fulfilled", ![p].module = module]
  /\ UNCHANGED <<bvars, cvars, dvars, fvars, qvars, lCached, lPromise, lImports, lLibPromise,
                 lCallers>>

\* the catch callback of #getLib (connection-manager.ts 147-150):
\* this.#libPromise is cleared and the promise it held rejects
LibCatch(p) ==
  /\ p \in 1..Len(lProms)
  /\ lProms[p].state = "pending"
  /\ Loaded(p) = "rejected"
  /\ lLibPromise' = [lLibPromise EXCEPT ![lProms[p].mgr] = cleared(@)]
  /\ lProms' = [lProms EXCEPT ![p].state = "rejected"]
  /\ UNCHANGED <<bvars, cvars, dvars, fvars, qvars, lCached, lPromise, lImports, lLib, lCallers>>

\* await this.#getLib() settles for connect call c (connection-manager.ts
\* 160-161): the call goes on with the module, or enters the catch block
\* with the failure of the import
GetLibSettled(c) ==
  /\ c \in 1..Len(lCallers)
  /\ lCallers[c].state = "waiting"
  /\ LET on == lCallers[c].on
     IN \/ /\ on = 0
           /\ lCallers' = [lCallers EXCEPT ![c].state = "resolved"]
        \/ /\ on # 0
           /\ lProms[on].state = "fulfilled"
           /\ lCallers' = [lCallers EXCEPT ![c].state = "resolved",
                                           ![c].module = lProms[on].module]
        \/ /\ on # 0
           /\ lProms[on].state = "rejected"
           /\ lCallers' = [lCallers EXCEPT ![c].state = "rejected",
                                           ![c].failure = lProms[on].imp]
  /\ UNCHANGED <<bvars, cvars, dvars, fvars, qvars, lCached, lPromise, lImports, lLib, lLibPromise,
                 lProms>>

LoadNext ==
  \/ \E m \in Managers : GetLib(m)
  \/ \E k \in 1..MaxImports : ImportResolved(k)
  \/ \E k \in 1..MaxImports : ImportRejected(k)
  \/ \E k \in 1..MaxImports : ModuleThen(k)
  \/ \E k \in 1..MaxImports : ModuleCatch(k)
  \/ \E p \in 1..MaxCallers : LibThen(p)
  \/ \E p \in 1..MaxCallers : LibCatch(p)
  \/ \E c \in 1..MaxCallers : GetLibSettled(c)

SpecLoad == LoadInit /\ [][LoadNext]_vars

(***************************************************************************)
(* TursoConnectionManager.validate and disconnect (connection-manager.ts   *)
(* 276-292): disconnect calls on one engine connection.                    *)
(***************************************************************************)
MaxDisconnects == 3

\* a disconnect call: where it stands, and whether an earlier disconnect
\* had already completed successfully when it was made
DisconnectCall(pc) ==
  [pc |-> pc, afterSuccess |-> \E j \in 1..Len(dCalls) : dCalls[j].pc = "resolved"]

DiscInit ==
  /\ FmtIdle
  /\ RunIdle
  /\ ConnIdle
  /\ BindIdle
  /\ LoadIdle
  /\ DiscIdle

\* validate(connection) (connection-manager.ts 276-278)
validate(flag) == ~flag

\* validate is called on the connection
Validate ==
  /\ dValid' = IF validate(dFlag) THEN "true" ELSE "false"
  /\ UNCHANGED <<bvars, cvars, fvars, lvars, qvars, dFlag, dCloses, dCalls>>

\* disconnect(connection) up to its await (connection-manager.ts 280-286):
\* it returns at once when the flag is set, and calls connection.close()
\* otherwise
Disconnect ==
  /\ Len(dCalls) < MaxDisconnects
  /\ IF dFlag
     THEN /\ dCalls' = Append(dCalls, DisconnectCall("returned"))
          /\ UNCHANGED dCloses
     ELSE /\ dCalls' = Append(dCalls, DisconnectCall("awaitClose"))
          /\ dCloses' = dCloses + 1
  /\ UNCHANGED <<bvars, cvars, fvars, lvars, qvars, dFlag, dValid>>

\* connection.close() resolves for call i, which sets the flag
\* (connection-manager.ts 286-288)
CloseResolved(i) ==
  /\ i \in 1..Len(dCalls)
  /\ dCalls[i].pc = "awaitClose"
  /\ dFlag' = TRUE
  /\ dCalls' = [dCalls EXCEPT ![i].pc = "resolved"]
  /\ UNCHANGED <<bvars, cvars, fvars, lvars, qvars, dCloses, dValid>>

\* connection.close() rejects for call i: the error is rethrown and the
\* flag is left as it was (connection-manager.ts 289-291)
CloseRejected(i) ==
  /\ i \in 1..Len(dCalls)
  /\ dCalls[i].pc = "awaitClose"
  /\ dCalls' = [dCalls EXCEPT ![i].pc = "rejected"]
  /\ UNCHANGED <<bvars, cvars, fvars, lvars, qvars, dFlag, dCloses, dValid>>

DiscNext ==
  \/ Validate
  \/ Disconnect
  \/ \E i \in 1..MaxDisconnects : CloseResolved(i)
  \/ \E i \in 1..MaxDisconnects : CloseRejected(i)

SpecDisc == DiscInit /\ [][DiscNext]_vars

(***************************************************************************)
(* Claims about the error classifier, checked under SpecFmt.               *)
(***************************************************************************)
\* C3: formatError is total: for every raw engine error, whatever its code
\* and message (an absent message included), it returns exactly one
\* classified error of one of the four kinds and never throws.
C3_FormatErrorTotal ==
  fPc = "done" => (~fOut.threw /\ fOut.kind \in ErrorKinds)

\* C8: a constraint-family code whose message is not a foreign-key failure
\* classifies as UniqueViolation, and the fields are the column names the
\* message lists, in message order: the newer form "UNIQUE constraint
\* failed: t.c, t.c2" gives <<c, c2>> (table prefix stripped), the older form
\* "columns c, c2 are ..." gives <<c, c2>>.
C8_UniqueFields ==
  (fPc = "done" /\ fErr.code \in ConstraintCodes /\ fErr.hasMessage
     /\ ~Includes(fErr.message, FKF))
  => /\ ~fOut.threw
     /\ fOut.kind = "UniqueViolation"
     /\ \A en \in NewFormEntries :
          fErr.message = NewFormMessage(en)
            => fOut.fields = [i \in 1..Len(en) |-> <<en[i][2]>>]
     /\ \A cs \in OldFormColumns :
          fErr.message = OldFormMessage(cs)
            => fOut.fields = [i \in 1..Len(cs) |-> <<cs[i]>>]

\* C8 witness: SQLITE_CONSTRAINT_UNIQUE with "UNIQUE constraint failed:
\* users.email, users.username" has been classified with fields
\* <<email, username>>.
C8_Witness ==
  /\ fPc = "done"
  /\ fErr.code = "SQLITE_CONSTRAINT_UNIQUE"
  /\ fErr.hasMessage
  /\ fErr.message = <<UCF, "users", DOT, "email", SEP, "users", DOT, "username">>
  /\ fOut.kind = "UniqueViolation"
  /\ fOut.fields = <<<<"email">>, <<"username">>>>

\* C9: for every constraint-family code, a message containing "FOREIGN KEY
\* constraint failed" classifies as ForeignKeyViolation, whatever else the
\* message contains and whatever the model's indexes are.
C9_ForeignKeyFirst ==
  (fPc = "done" /\ fErr.code \in ConstraintCodes /\ fErr.hasMessage
     /\ Includes(fErr.message, FKF))
  => (~fOut.threw /\ fOut.kind = "ForeignKeyViolation")

\* C9 witness: a message that matches the newer unique pattern and also
\* holds the foreign-key text, under a model with a matching unique index,
\* has been classified as ForeignKeyViolation.
C9_Witness ==
  /\ fPc = "done"
  /\ fErr.code = "SQLITE_CONSTRAINT_FOREIGNKEY"
  /\ fErr.hasMessage
  /\ fErr.message = <<UCF, "users", DOT, "email", FKF>>
  /\ fModel.present /\ Len(fModel.indexes) > 0
  /\ fOut.kind = "ForeignKeyViolation"

\* C10 as stated: every lock/busy engine error code classifies as
\* BusyTimeout.
C10_EveryLockBusyCode ==
  (fPc = "done" /\ fErr.code \in LockBusyCodes)
  => (~fOut.threw /\ fOut.kind = "BusyTimeout")

\* C10 amended: SQLITE_BUSY classifies as BusyTimeout whatever its message
\* (present or absent); every other lock/busy code is not matched by the
\* switch and classifies as Generic.
C10_BusyOnly ==
  (fPc = "done" /\ fErr.code \in LockBusyCodes)
  => /\ ~fOut.threw
     /\ fErr.code = "SQLITE_BUSY" => fOut.kind = "BusyTimeout"
     /\ fErr.code # "SQLITE_BUSY" => fOut.kind = "Generic"

\* C10 witness: SQLITE_BUSY with a message that looks like a unique
\* violation has been classified as BusyTimeout.
C10_Witness ==
  /\ fPc = "done"
  /\ fErr.code = "SQLITE_BUSY"
  /\ fErr.hasMessage
  /\ Includes(fErr.message, UCF)
  /\ fOut.kind = "BusyTimeout"

AsBound(value) ==
  IF value.t = "bigint" THEN [t |-> "string", v |-> value.v] ELSE value

\* C13: for every positional parameter sequence, the arguments passed to the
\* engine statement have the length and order of the input, each bigint
\* replaced by its decimal string and every other value unchanged.
C13_PositionalPassThrough ==
  (bPc = "bound" /\ bParams.form = "array")
  => /\ Len(bArgs) = Len(bParams.list)
     /\ \A i \in 1..Len(bArgs) :
          /\ bParams.list[i].t = "bigint"
               => bArgs[i] = [t |-> "string", v |-> bParams.list[i].v]
          /\ bParams.list[i].t # "bigint" => bArgs[i] = bParams.list[i]

\* C13 witness: [1, 9223372036854775807n] has been bound as
\* [1, "9223372036854775807"].
C13_Witness ==
  /\ bPc = "bound"
  /\ bParams = ArrayParams(<<[t |-> "number", v |-> "1"],
                             [t |-> "bigint", v |-> "9223372036854775807"]>>)
  /\ bArgs = <<[t |-> "number", v |-> "1"],
               [t |-> "string", v |-> "9223372036854775807"]>>

\* positions of the placeholder tokens in the SQL text
PlaceholderAt == {i \in 1..Len(bSql) : bSql[i] \in {"$age", "$username"}}

\* the name of the k-th placeholder occurrence, left to right
NthName(k) ==
  LET i == CHOOSE i \in PlaceholderAt :
             Cardinality({j \in PlaceholderAt : j <= i}) = k
  IN IF bSql[i] = "$age" THEN "age" ELSE "username"

\* position in mapping m of the given key, 0 when m has no such key
At(m, key) ==
  IF \E i \in 1..Len(m) : m[i].key = key
  THEN CHOOSE i \in 1..Len(m) : m[i].key = key
  ELSE 0

\* every placeholder name of the SQL text is a key of mapping m, bare or
\* with the sigil
EveryNameKeyed(m) ==
  \A k \in 1..Cardinality(PlaceholderAt) :
    At(m, NthName(k)) # 0 \/ At(m, "$" \o NthName(k)) # 0

\* the same entries in every key order
KeyOrders(m) ==
  {[i \in 1..Len(m) |-> m[p[i]]] :
     p \in {q \in [1..Len(m) -> 1..Len(m)] :
              \A i, j \in 1..Len(m) : i # j => q[i] # q[j]}}

\* C14 as stated: for a named mapping in which every placeholder name of
\* the SQL text has an exact key (bare or with the sigil), the i-th argument
\* is the value stored under the name of the i-th placeholder occurrence (a
\* bigint in its decimal digits), independent of the order of the keys and
\* of extra keys: every key order of the same entries binds the same list.
C14_NamedOrderPreserving ==
  (bPc = "bound" /\ bParams.form = "named" /\ EveryNameKeyed(bParams.list))
  => LET m == bParams.list
     IN /\ Len(bArgs) = Cardinality(PlaceholderAt)
        /\ \A k \in 1..Len(bArgs) :
             \E i \in 1..Len(m) :
               /\ m[i].key \in {NthName(k), "$" \o NthName(k)}
               /\ bArgs[k] = AsBound(m[i].value)
        /\ \A m2 \in KeyOrders(m) :
             engineArguments(bSql, normalizeParameters(NamedParams(m2))) = bArgs

\* C14 amended: as stated, except that when a name is a key both bare and
\* with the sigil, the one of the two that comes later in key order supplies
\* the value (so the key order matters for such a name, and only for such a
\* name).
C14_NamedLaterFormWins ==
  (bPc = "bound" /\ bParams.form = "named" /\ EveryNameKeyed(bParams.list))
  => LET m == bParams.list
     IN /\ Len(bArgs) = Cardinality(PlaceholderAt)
        /\ \A k \in 1..Len(bArgs) :
             LET bare == At(m, NthName(k))
                 prefixed == At(m, "$" \o NthName(k))
                 later == IF bare > prefixed THEN bare ELSE prefixed
             IN bArgs[k] = AsBound(m[later].value)
        /\ \A m2 \in KeyOrders(m) :
             (\A n \in {"age", "username"} : At(m, n) = 0 \/ At(m, "$" \o n) = 0)
             => engineArguments(bSql, normalizeParameters(NamedParams(m2))) = bArgs

\* C14 witness: 'SET x = $age ... $username' with {age: 40, username: u}
\* has been bound as [40, u].
C14_Witness ==
  /\ bPc = "bound"
  /\ bSql = <<"SET x = ", "$age", "$username">>
  /\ bParams = NamedParams(<<[key |-> "age", value |-> [t |-> "number", v |-> "40"]],
                             [key |-> "username", value |-> [t |-> "string", v |-> "u"]]>>)
  /\ bArgs = <<[t |-> "number", v |-> "40"], [t |-> "string", v |-> "u"]>>

\* the key that serves the k-th placeholder of mapping m when the keys in
\* used are consumed: the name with the sigil, else the bare name, else the
\* first key in key order that is not consumed, else none
KeyFor(m, k, used) ==
  LET free == {i \in 1..Len(m) : m[i].key \notin used}
  IN IF At(m, "$" \o NthName(k)) # 0 THEN "$" \o NthName(k)
     ELSE IF At(m, NthName(k)) # 0 THEN NthName(k)
     ELSE IF free # {} THEN m[CHOOSE i \in free : \A j \in free : i <= j].key
     ELSE "<none>"

\* the keys consumed by the first k placeholders of mapping m
RECURSIVE Consumed(_, _)
Consumed(m, k) ==
  IF k = 0 THEN {}
  ELSE Consumed(m, k - 1) \cup ({KeyFor(m, k, Consumed(m, k - 1))} \ {"<none>"})

\* the k-th placeholder of mapping m has no exact key and is served by the
\* fallback
ByFallback(m, k) == At(m, "$" \o NthName(k)) = 0 /\ At(m, NthName(k)) = 0

\* C15: _convertNamedParamsToPositional resolves each placeholder
\* occurrence, left to right, from (1) the key with the sigil, (2) the bare
\* key, (3) the first key in key order that no earlier placeholder has
\* consumed, (4) null when nothing resolves; the fallback never hands out a
\* key that an earlier placeholder consumed, by exact match or by fallback.
C15_ResolutionOrder ==
  bPc = "converted"
  => LET m == bParams.list
         n == Cardinality(PlaceholderAt)
     IN /\ Len(bDirect) = n
        /\ \A k \in 1..n :
             LET key == KeyFor(m, k, Consumed(m, k - 1))
             IN /\ bDirect[k] = IF key = "<none>" THEN [t |-> "null", v |-> "null"]
                                ELSE m[At(m, key)].value
                /\ (ByFallback(m, k) /\ key # "<none>")
                     => \A j \in 1..(k - 1) :
                          KeyFor(m, j, Consumed(m, j - 1)) # key

\* C15 witness: '$age $username $username' with {age: 40, $age: 7n} has
\* been resolved to [7n, 40, null]: the key with the sigil, then the one
\* key not yet consumed, then nothing.
C15_Witness ==
  /\ bPc = "converted"
  /\ bSql = <<"$age", "$username", "$username">>
  /\ bParams = NamedParams(<<[key |-> "age", value |-> [t |-> "number", v |-> "40"]],
                             [key |-> "$age", value |-> [t |-> "bigint", v |-> "7"]]>>)
  /\ bDirect = <<[t |-> "bigint", v |-> "7"], [t |-> "number", v |-> "40"],
                 [t |-> "null", v |-> "null"]>>

\* C16: for every SQL text and every named mapping,
\* _convertNamedParamsToPositional returns one argument per placeholder
\* occurrence of the text, left to right, a name that occurs twice filling
\* two positions; a text without placeholders gives the empty list whatever
\* keys the mapping holds.
C16_OneArgumentPerOccurrence ==
  bPc = "converted"
  => LET m == bParams.list
     IN /\ Len(bDirect) = Cardinality(PlaceholderAt)
        /\ PlaceholderAt = {} => bDirect = <<>>
        /\ \A k \in 1..Len(bDirect) :
             At(m, "$" \o NthName(k)) # 0
               => bDirect[k] = m[At(m, "$" \o NthName(k))].value

\* C16 witness: '$age $username $age' with {$age: 40, $username: u} has
\* been resolved to [40, u, 40].
C16_Witness ==
  /\ bPc = "converted"
  /\ bSql = <<"$age", "$username", "$age">>
  /\ bParams = NamedParams(<<[key |-> "$age", value |-> [t |-> "number", v |-> "40"]],
                             [key |-> "$username", value |-> [t |-> "string", v |-> "u"]]>>)
  /\ bDirect = <<[t |-> "number", v |-> "40"], [t |-> "string", v |-> "u"],
                 [t |-> "number", v |-> "40"]>>

(***************************************************************************)
(* Claims about run, checked under Spec.                                   *)
(***************************************************************************)
Settled(r) == rPc[r] \in {"resolved", "rejected"}

\* the engine step of run r failed: connection.prepare threw, or the
\* promise of stmt.all / stmt.run rejected
EngineFailed(r) == rRaw[r] # NoRaw

\* C1: in both execution modes, the prepared statement a run obtained from
\* connection.prepare is closed before the promise of that run settles,
\* whether the engine call resolved or rejected.
C1_StatementClosedOnSettle ==
  \A r \in RunIds : Settled(r) => rStmt[r] # "open"

\* C1 witness: runs have settled with their statement closed on each path:
\* a rowcount-mode run whose engine call rejected, and a rowset-mode
\* follow-up run whose engine call resolved.
C1_Witness ==
  /\ rPc[0] = "rejected" /\ rStmt[0] = "closed"
  /\ \E r \in RunIds \ {0} :
       /\ rPc[r] = "resolved" /\ rMethod[r] = "all" /\ rStmt[r] = "closed"
       /\ \E k \in RunIds \ {0} :
            rPc[k] = "rejected" /\ rRaw[k] \in RunErrors /\ rStmt[k] = "closed"

\* C2: whenever the engine step of a run fails, the run rejects with what
\* formatError yields for the raw error, and the raw error carries the SQL
\* text passed to that run (error.sql = the sql of the failed run); this
\* holds for every run, the follow-up INDEX_INFO runs included.
C2_EngineFailureAnnotated ==
  \A r \in RunIds :
    (Settled(r) /\ EngineFailed(r))
    => /\ rPc[r] = "rejected"
       /\ rErr[r] = formatError(rRaw[r], RunModel)
       /\ rErrSql[r] = rSql[r]

\* the mode the claim C5 assigns to a classification, "any" where it names
\* none
ModeOfClassification(o) ==
  CASE o.type \in {"Insert", "Update", "Upsert", "BulkUpdate"} ->
         IF o.returning THEN "all" ELSE "run"
    [] o.type = "Delete" -> "run"
    [] o.type \in {"Select", "ShowOrDescribe", "ShowConstraints", "Raw"} -> "all"
    [] OTHER -> "any"

Started(r) == rPc[r] \notin {"off", "idle"}

\* C5 as stated: the execution mode follows from the classification alone,
\* for every SQL text: Insert, Update, Upsert and BulkUpdate use rowset mode
\* exactly when options.returning is set; Delete always uses rowcount mode;
\* Select, ShowOrDescribe, ShowConstraints and Raw always use rowset mode.
C5_ModeFromClassificationAlone ==
  \A r \in RunIds :
    (Started(r) /\ ModeOfClassification(qOpts) # "any")
    => rMethod[r] = ModeOfClassification(qOpts)

\* C5 amended: as stated, except that Select, ShowOrDescribe,
\* ShowConstraints and Raw use rowcount mode when the SQL text contains
\* "create temporary table" in any letter case, and rowset mode otherwise.
C5_ModeFromClassificationAndText ==
  \A r \in RunIds :
    (Started(r) /\ ModeOfClassification(qOpts) # "any")
    => rMethod[r] =
         IF /\ qOpts.type \in {"Select", "ShowOrDescribe", "ShowConstraints", "Raw"}
            /\ rSql[r] \in {SqlCreateTemp, SqlCreateTempMixed}
         THEN "run"
         ELSE ModeOfClassification(qOpts)

\* C5 witness: a Raw query whose text is "Create Temporary Table ..." has
\* been started in rowcount mode.
C5_Witness ==
  /\ Started(0)
  /\ qOpts.type = "Raw"
  /\ rSql[0] = SqlCreateTempMixed
  /\ rMethod[0] = "run"

\* C6: across run end to end, EmptyResult is raised only for a plain insert
\* (not upsert) with a target instance, in row-returning mode, when the
\* engine returned zero rows; a mutation the engine executed successfully in
\* rowcount mode is never reported as EmptyResult.
C6_EmptyResultOnlyWhenRowsExpected ==
  \A r \in RunIds :
    (rPc[r] = "rejected" /\ rErr[r].kind = "EmptyResult")
    => /\ isInsertQuery(qOpts) /\ ~isUpsertQuery(qOpts)
       /\ qInst.present
       /\ rMethod[0] = "all"
       /\ rEngRows[0] = <<>>

\* C7: shaping an Insert classification that has a target instance raises
\* EmptyResult when the engine returned zero rows; with one returned row it
\* raises nothing and every returned column is set on the instance, under
\* the attribute name mapped from the column, marked as coming from the
\* database.
C7_InsertShaping ==
  (Settled(0) /\ ~EngineFailed(0) /\ isInsertQuery(qOpts) /\ qInst.present)
  => LET results == rResp[0].results
     IN /\ Len(results) = 0 => (rPc[0] = "rejected" /\ rErr[0].kind = "EmptyResult")
        /\ Len(results) = 1 =>
             /\ rPc[0] = "resolved"
             /\ \A k \in 1..Len(results[1]) :
                  LET cell == results[1][k]
                      known == cell.col \in ColumnNames
                      name == IF known THEN AttributeOf(cell.col).attributeName
                              ELSE cell.col
                  IN /\ name \in qInst.fromDb
                     /\ qInst.dataValues[name] =
                          parseDatabaseValue(cell.val, known,
                            IF known THEN AttributeOf(cell.col).type ELSE "")

\* C7 witness: an insert with a target instance has resolved after the
\* engine returned the one row {id: 1, user_name: bob}, and the instance
\* holds userName = bob, set from the database.
C7_Witness ==
  /\ rPc[0] = "resolved"
  /\ isInsertQuery(qOpts) /\ qInst.present
  /\ rResp[0].results = <<RowA>>
  /\ qInst.dataValues["userName"] = "bob"
  /\ qInst.dataValues["id"] = "1"
  /\ qInst.fromDb = {"id", "userName"}

\* C11: every engine failure of a run yields exactly one classified error,
\* of one of the four kinds, and that error carries the raw engine error as
\* its cause.
C11_OneClassifiedErrorWithCause ==
  \A r \in RunIds :
    (Settled(r) /\ EngineFailed(r))
    => /\ rPc[r] = "rejected"
       /\ ~rErr[r].threw
       /\ rErr[r].kind \in ErrorKinds
       /\ rErr[r].cause = rRaw[r]

\* run r has called stmt.all / stmt.run
EngineCalled(r) == rStmt[r] # "none"

\* number of placeholder tokens in a SQL text
PlaceholderCount(sql) ==
  Cardinality({i \in 1..Len(sql) : sql[i] \in {"$age", "$username"}})

\* C17: in both execution modes the engine statement is called with a
\* spread positional argument list: an array is spread as it is (bigints as
\* decimal strings), a named mapping is first resolved to one scalar per
\* placeholder, absent parameters give a call without arguments; no
\* argument is ever a mapping object.
C17_OnlyPositionalArguments ==
  \A r \in RunIds :
    EngineCalled(r)
    => /\ rMethod[r] \in {"run", "all"}
       /\ \A i \in 1..Len(rArgs[r]) : rArgs[r][i].t \in {"number", "string", "null"}
       /\ r # 0 => rArgs[r] = <<>>
       /\ (r = 0 /\ qParams.form = "absent") => rArgs[r] = <<>>
       /\ (r = 0 /\ qParams.form = "array")
            => rArgs[r] = [i \in 1..Len(qParams.list) |-> AsBound(qParams.list[i])]
       /\ (r = 0 /\ qParams.form = "named")
            => Len(rArgs[r]) = PlaceholderCount(rSql[r])

\* C17 witness: an insert in rowcount mode, given the mapping
\* {age: 40, $username: u}, has called stmt.run with the two scalars 40, u.
C17_Witness ==
  /\ EngineCalled(0)
  /\ rMethod[0] = "run"
  /\ rSql[0] = SqlInsert
  /\ qParams.form = "named"
  /\ rArgs[0] = <<[t |-> "number", v |-> "40"], [t |-> "string", v |-> "u"]>>

\* C18: the result of the series function has the shape of its mode: rowset
\* mode gives lastID 0 and changes 0 with the rows of the engine in engine
\* order; rowcount mode gives no rows, the changes the engine reported, and
\* as lastID the identifier the engine reported, or 0 when it reported
\* none.
C18_ResultShapeByMode ==
  \A r \in RunIds :
    rPc[r] = "seriesReturned"
    => /\ rMethod[r] = "all"
            => /\ rResp[r].statement = [lastID |-> [kind |-> "number", n |-> 0],
                                        changes |-> 0]
               /\ rResp[r].results = rEngRows[r]
       /\ rMethod[r] = "run"
            => /\ rResp[r].results = <<>>
               /\ rResp[r].statement.changes = rEngRes[r].changes
               /\ rResp[r].statement.lastID =
                    [kind |-> "number",
                     n |-> IF rEngRes[r].hasRowid THEN rEngRes[r].lastInsertRowid
                           ELSE 0]

\* run 0 has resolved with the shaped answer of PRAGMA TABLE_INFO
TableShaped == rPc[0] = "resolved" /\ rValue[0].shape = "table"

\* C19: ShowTableInfo shaping keeps an explicit NULL default and no default
\* apart for every column, whatever its type: dflt_value 'NULL' shapes to
\* defaultValue null, an absent dflt_value shapes to defaultValue undefined.
C19_NullDefaultKeptApart ==
  TableShaped
  => \A i \in 1..Len(rEngRows[0]) :
       LET row == rEngRows[0][i]
           entry == rValue[0].rows[i]
       IN /\ (~row.dflt_value.isNull /\ row.dflt_value.text = <<"NULL">>)
               => entry.defaultValue.t = "null"
          /\ row.dflt_value.isNull => entry.defaultValue.t = "undefined"

\* C20: ShowTableInfo shaping gives one entry per column row, keyed by the
\* column name, with type copied, allowNull true exactly when notnull is 0,
\* primaryKey true exactly when pk is not 0, and for a TINYINT(1) column a
\* default of 0 or 1 mapped to false or true.
C20_TableInfoEntries ==
  TableShaped
  => /\ Len(rValue[0].rows) = Len(rEngRows[0])
     /\ \A i \in 1..Len(rEngRows[0]) :
          LET row == rEngRows[0][i]
              entry == rValue[0].rows[i]
          IN /\ entry.name = row.name
             /\ entry.type = row.type
             /\ entry.allowNull <=> (row.notnull = 0)
             /\ entry.primaryKey <=> (row.pk # 0)
             /\ (row.type = "TINYINT(1)" /\ ~row.dflt_value.isNull
                   /\ row.dflt_value.text = <<"1">>)
                  => entry.defaultValue = [t |-> "boolean", text |-> <<"true">>]
             /\ (row.type = "TINYINT(1)" /\ ~row.dflt_value.isNull
                   /\ row.dflt_value.text = <<"0">>)
                  => entry.defaultValue = [t |-> "boolean", text |-> <<"false">>]

\* C20 witness: the row {name: active, type: TINYINT(1), dflt_value: "1",
\* notnull: 0, pk: 0} has been shaped to {type: TINYINT(1), allowNull: true,
\* defaultValue: true, primaryKey: false}.
C20_Witness ==
  /\ TableShaped
  /\ rEngRows[0] = <<[name |-> "active", type |-> "TINYINT(1)",
                      dflt_value |-> [isNull |-> FALSE, text |-> <<"1">>],
                      notnull |-> 0, pk |-> 0]>>
  /\ rValue[0].rows = <<[name |-> "active", type |-> "TINYINT(1)", allowNull |-> TRUE,
                         defaultValue |-> [t |-> "boolean", text |-> <<"true">>],
                         primaryKey |-> FALSE]>>

\* run 0 has resolved with the shaped answer of PRAGMA INDEX_LIST
IndexesShaped == rPc[0] = "resolved" /\ rValue[0].shape = "indexes"

\* C21: for a ShowIndexes result of n index rows the shaped output lists
\* the indexes in the reverse of the engine's order, whatever the order in
\* which the follow-up runs complete; the field list of each index is built
\* from the rows of that index's own follow-up statement only, each column
\* at the position of its seqno; unique is a boolean and constraintName is
\* the index name.
C21_IndexesInDeclarationOrder ==
  IndexesShaped
  => LET n == Len(rEngRows[0])
         out == rValue[0].rows
     IN /\ Len(out) = n
        /\ \A i \in 1..n :
             LET row == rEngRows[0][n + 1 - i]
                 item == out[i]
                 columns == rEngRows[i]
             IN /\ item.name = row.name
                /\ item.constraintName = row.name
                /\ item.unique \in BOOLEAN
                /\ item.unique <=> (row.unique # 0)
                /\ rSql[i] = IndexInfoSql(row.name)
                /\ \A k \in 1..Len(columns) :
                     /\ columns[k].seqno + 1 <= Len(item.fields)
                     /\ item.fields[columns[k].seqno + 1] = columns[k].name
                /\ \A p \in 1..Len(item.fields) :
                     item.fields[p] # "<empty>"
                       => \E k \in 1..Len(columns) : columns[k].seqno + 1 = p

\* C21 witness: the engine listed idx_age before idx_email; the follow-up
\* of idx_email answered (1, username), (0, email) and that of idx_age
\* answered (0, email); the output lists idx_email with fields email,
\* username and then idx_age with field email.
C21_Witness ==
  /\ IndexesShaped
  /\ rEngRows[0] = <<[name |-> "idx_age", unique |-> 0],
                     [name |-> "idx_email", unique |-> 1]>>
  /\ rEngRows[1] = <<[seqno |-> 1, name |-> "username"], [seqno |-> 0, name |-> "email"]>>
  /\ rValue[0].rows =
       <<[name |-> "idx_email", fields |-> <<"email", "username">>, primary |-> FALSE,
          unique |-> TRUE, constraintName |-> "idx_email"],
         [name |-> "idx_age", fields |-> <<"email">>, primary |-> FALSE,
          unique |-> FALSE, constraintName |-> "idx_age"]>>

\* C26: for an Upsert classification shaping never throws and returns the
\* pair (target instance, null): the second element is null whether or not
\* the engine returned rows and whether or not row-returning mode was used.
C26_UpsertPair ==
  isUpsertQuery(qOpts) =>
    /\ rPc[0] = "resolved" =>
         /\ rValue[0].shape = "pair"
         /\ rValue[0].first = (IF qInst.present THEN "instance" ELSE "undefined")
         /\ rValue[0].second = Null
    /\ rPc[0] = "rejected" => EngineFailed(0)

\* C26 witness: an upsert in row-returning mode on a target instance, one
\* row returned by the engine, has resolved with (instance, null).
C26_Witness ==
  /\ isUpsertQuery(qOpts) /\ qOpts.returning
  /\ qInst.present
  /\ rMethod[0] = "all" /\ Len(rEngRows[0]) = 1
  /\ rPc[0] = "resolved"
  /\ rValue[0].first = "instance" /\ rValue[0].second = Null

\* an upsert in rowcount mode, no rows, has resolved with the pair as well
C26_WitnessNoRows ==
  /\ isUpsertQuery(qOpts) /\ ~qOpts.returning
  /\ rMethod[0] = "run"
  /\ rPc[0] = "resolved"
  /\ rValue[0].shape = "pair" /\ rValue[0].second = Null

\* C27: for a Delete classification run resolves to exactly the changed-row
\* count the engine reported for the executed statement, with or without a
\* target instance and whatever options.returning is; it rejects only when
\* the engine step failed.
C27_DeleteCount ==
  isDeleteQuery(qOpts) =>
    /\ Started(0) => rMethod[0] = "run"
    /\ rPc[0] = "resolved" =>
         rValue[0] = Value("count", "none", Num(rEngRes[0].changes), <<>>, ZeroMeta)
    /\ rPc[0] = "rejected" => EngineFailed(0)

\* C27 witness: a delete with options.returning set and a target instance,
\* for which the engine reported one changed row, has resolved to 1.
C27_Witness ==
  /\ isDeleteQuery(qOpts) /\ qOpts.returning /\ qInst.present
  /\ rEngRes[0].changes = 1
  /\ rPc[0] = "resolved"
  /\ rValue[0].second = Num(1)

\* the runs whose prepared statement is open: prepared and not yet closed
OpenStatements == {r \in RunIds : rStmt[r] = "open"}

\* C28: while a run is in progress, the follow-up INDEX_INFO runs of
\* ShowIndexes shaping included, at most one prepared statement is open on
\* the connection at any moment, and a follow-up statement is issued to the
\* engine only after the one before it has completed and been closed.
C28_OneStatementAtATime ==
  /\ Cardinality(OpenStatements) <= 1
  /\ \A r, k \in RunIds :
       (0 < r /\ r < k /\ EngineCalled(k)) => rStmt[r] = "closed"

(***************************************************************************)
(* Claims about connect, checked under SpecConn.                           *)
(***************************************************************************)
\* the storage target is ':memory:' or the empty string (and no remote url
\* takes its place)
NonDurableTarget == ~isRemote(cOpts) /\ cOpts.storage \in {":memory:", ""}

PoolFitsOneConnection ==
  /\ cPool.idleTimeoutMillis = "Infinity"
  /\ cPool.maxUsesPerResource = "Infinity"
  /\ cPool.maxSize = 1
  /\ ~cPool.read

\* C4: for a non-durable storage target (':memory:' or ''), connect makes
\* no call to the driver's connect and rejects, with the configuration
\* Error of the guard once it holds the driver module, whenever the write
\* pool's idleTimeoutMillis is not Infinity, or its maxUsesPerResource is
\* not Infinity, or its maxSize is not 1, or a read pool is configured;
\* when all four conditions hold, the call goes on to the driver's connect.
C4_NonDurableGuard ==
  NonDurableTarget =>
    /\ ~PoolFitsOneConnection =>
         /\ cCalls = <<>>
         /\ cConn = NoConn
         /\ cOut.status # "resolved"
         /\ cPc \in {"idle", "awaitLib", "done"}
         /\ (cPc = "done" /\ cLib # "none") =>
              /\ cOut.status = "rejected"
              /\ cOut.kind = "Error"
              /\ cOut.message \in {"idleTimeoutMillis", "maxUsesPerResource",
                                   "maxSize", "readReplication"}
    /\ (PoolFitsOneConnection /\ cLib # "none" /\ cPc \notin {"idle", "awaitLib"}) =>
         /\ cCalls = <<DriverCall(cOpts.storage, "")>>
         /\ ~(cOut.status = "rejected" /\ cOut.kind = "Error")

\* C4 witness: connect to ':memory:' with a write pool of maxSize 5 (and
\* nothing else amiss) has rejected with the Error about maxSize, without
\* a call to the driver's connect.
C4_Witness ==
  /\ cOpts.storage = ":memory:" /\ cOpts.url = ""
  /\ cPool = [idleTimeoutMillis |-> "Infinity", maxUsesPerResource |-> "Infinity",
              maxSize |-> 5, read |-> FALSE]
  /\ cPc = "done"
  /\ cOut = Rejected("Error", "maxSize")
  /\ cCalls = <<>>

\* C22: given a remote url without an authToken, connect makes no call to
\* the driver's connect and, once it holds the driver module, rejects with
\* the Error that says the authToken is required; given a url and an
\* authToken it calls the driver's connect exactly once, with that url and
\* that token, and when the call fails connect rejects with a
\* ConnectionError.
C22_RemoteNeedsToken ==
  isRemote(cOpts) =>
    /\ cOpts.authToken = "" =>
         /\ cCalls = <<>>
         /\ cConn = NoConn
         /\ cOut.status # "resolved"
         /\ cPc \in {"idle", "awaitLib", "done"}
         /\ (cPc = "done" /\ cLib # "none") =>
              cOut = Rejected("Error", "authToken is required")
    /\ (cOpts.authToken # "" /\ cLib # "none" /\ cPc \notin {"idle", "awaitLib"}) =>
         /\ cCalls = <<[target |-> cOpts.url, authToken |-> cOpts.authToken]>>
         /\ cPc \in {"awaitRemote", "done"}
         /\ (cPc = "done" /\ ~cConn.opened) =>
              /\ cOut.status = "rejected"
              /\ cOut.kind = "ConnectionError"
         /\ (cPc = "done" /\ cConn.opened) =>
              /\ cOut = Resolved
              /\ cConn.target = cOpts.url
              /\ cConn.authToken = cOpts.authToken

\* C22 witness: connect with the url libsql://db.turso.io and no authToken
\* has rejected with the Error about the authToken, the driver module in
\* hand and its connect never called.
C22_Witness ==
  /\ cOpts.url = "libsql://db.turso.io" /\ cOpts.authToken = ""
  /\ cLib # "none"
  /\ cPc = "done"
  /\ cOut = Rejected("Error", "authToken is required")
  /\ cCalls = <<>>

\* connect with url and authToken has made its one call to the driver's
\* connect, and the call has failed
C22_WitnessFailedCall ==
  /\ cOpts.url = "libsql://db.turso.io" /\ cOpts.authToken = "token"
  /\ cCalls = <<[target |-> "libsql://db.turso.io", authToken |-> "token"]>>
  /\ cPc = "done"
  /\ cOut = Rejected("ConnectionError", "connect failed")

\* connect has resolved with the connection cConn
Connected == cPc = "done" /\ cOut = Resolved

\* the statement sql was executed on the connection and completed
Executed(sql) ==
  \E i \in 1..Len(cConn.execs) : cConn.execs[i] = [sql |-> sql, status |-> "ok"]

\* C24: unless the dialect option foreignKeys is false, every connection
\* that connect returns, whatever the storage target (local file, in-memory
\* or remote url), has had PRAGMA foreign_keys = ON executed on it.
C24_ForeignKeysOnEveryConnection ==
  (Connected /\ cDialect.foreignKeys) => Executed(PragmaForeignKeys)

\* the setup statements a local connect with these options issues, in order
SetupPlan ==
  (IF cOpts.password # "" THEN <<PragmaKey>> ELSE <<>>)
    \o (IF cDialect.foreignKeys THEN <<PragmaForeignKeys>> ELSE <<>>)
    \o (IF cOpts.enableWal THEN <<PragmaWal>> ELSE <<>>)

\* the statement sql was executed on the connection and failed
FailedExec(sql) ==
  \E i \in 1..Len(cConn.execs) : cConn.execs[i] = [sql |-> sql, status |-> "failed"]

\* C25: on a local connect with enableWal not false, PRAGMA journal_mode =
\* WAL is issued after the PRAGMA KEY and foreign-key statements have
\* completed and before the connection is returned; a failure of the WAL
\* statement never makes connect reject, and a failure of PRAGMA KEY or of
\* the foreign-key PRAGMA makes connect reject with a ConnectionError.
C25_WalAfterSetup ==
  ~isRemote(cOpts) =>
    /\ \A i \in 1..Len(cConn.execs) :
         /\ i <= Len(SetupPlan)
         /\ cConn.execs[i].sql = SetupPlan[i]
         /\ i < Len(cConn.execs) => cConn.execs[i].status = "ok"
    /\ (Connected /\ cOpts.enableWal) =>
         /\ Len(cConn.execs) = Len(SetupPlan)
         /\ cConn.execs[Len(cConn.execs)].sql = PragmaWal
         /\ cConn.execs[Len(cConn.execs)].status \in {"ok", "failed"}
    /\ FailedExec(PragmaWal) => (cPc = "done" /\ cOut = Resolved)
    /\ (FailedExec(PragmaKey) \/ FailedExec(PragmaForeignKeys)) =>
         /\ cPc = "done"
         /\ cOut.status = "rejected"
         /\ cOut.kind = "ConnectionError"

\* C25 witness: a local connect with a password has executed PRAGMA KEY and
\* PRAGMA foreign_keys = ON, the WAL statement has failed, and connect has
\* resolved with the connection.
C25_Witness ==
  /\ ~isRemote(cOpts)
  /\ Connected
  /\ cConn.execs = <<[sql |-> PragmaKey, status |-> "ok"],
                     [sql |-> PragmaForeignKeys, status |-> "ok"],
                     [sql |-> PragmaWal, status |-> "failed"]>>

\* a local connect whose PRAGMA KEY failed has rejected with a
\* ConnectionError
C25_WitnessKeyFailed ==
  /\ ~isRemote(cOpts)
  /\ cConn.execs = <<[sql |-> PragmaKey, status |-> "failed"]>>
  /\ cOut = Rejected("ConnectionError", "exec failed")

\* C30: a failed connect leaves no open engine connection behind: when the
\* driver's connect succeeded and a later setup step (PRAGMA KEY or PRAGMA
\* foreign_keys = ON) failed, connect rejects with a ConnectionError and
\* the engine connection it opened has been closed.
C30_FailedConnectClosesConnection ==
  (cPc = "done" /\ cConn.opened
     /\ (FailedExec(PragmaKey) \/ FailedExec(PragmaForeignKeys)))
  => /\ cOut.status = "rejected"
     /\ cOut.kind = "ConnectionError"
     /\ cConn.closed

(***************************************************************************)
(* Claims about loading the driver module, checked under SpecLoad.         *)
(***************************************************************************)
\* the imports of the driver that have not settled yet
InFlight == {k \in 1..Len(lImports) : lImports[k] = "inflight"}

\* the import connect call c depends on (0 when it was handed a module
\* that was already there)
ImportOf(c) == IF lCallers[c].on = 0 THEN 0 ELSE lProms[lCallers[c].on].imp

\* C23: the default driver module is loaded single-flight and memoized, in
\* every interleaving of connect calls on managers without an injected
\* module: at most one import is in flight at a time; the calls waiting on
\* the same import settle alike and every call that gets a module gets the
\* same one; no import is started after one has succeeded; and a promise
\* that has rejected is never kept in defaultModulePromise or #libPromise,
\* so that no call is handed a load that had already failed when it
\* called.
C23_SingleFlightMemoized ==
  /\ Cardinality(InFlight) <= 1
  /\ \A c, d \in 1..Len(lCallers) :
       /\ (lCallers[c].state = "resolved" /\ lCallers[d].state = "resolved")
            => lCallers[c].module = lCallers[d].module
       /\ (ImportOf(c) # 0 /\ ImportOf(c) = ImportOf(d)
             /\ lCallers[c].state # "waiting" /\ lCallers[d].state # "waiting")
            => /\ lCallers[c].state = lCallers[d].state
               /\ lCallers[c].failure = lCallers[d].failure
  /\ \A c \in 1..Len(lCallers) :
       /\ lCallers[c].state = "resolved" => lCallers[c].module = lCached
       /\ ~lCallers[c].late
  /\ \A k \in 1..Len(lImports) :
       lImports[k] \in {"loaded", "fulfilled"} => k = Len(lImports)
  /\ lPromise # 0 => lImports[lPromise] # "rejected"
  /\ \A m \in Managers :
       lLibPromise[m] # 0 => lProms[lLibPromise[m]].state # "rejected"

\* C23 witness: the first connect call was rejected with the failure of
\* import 1; a later call on the same manager started import 2 and got its
\* module, and a call on the other manager got the same module.
C23_Witness ==
  /\ Len(lCallers) = 3
  /\ lCallers[1].state = "rejected" /\ lCallers[1].failure = 1
  /\ lCallers[2].mgr = lCallers[1].mgr
  /\ lCallers[2].state = "resolved" /\ lCallers[2].module = 2
  /\ lCallers[3].mgr # lCallers[1].mgr
  /\ lCallers[3].state = "resolved" /\ lCallers[3].module = 2
  /\ lImports = <<"rejected", "fulfilled">>

(***************************************************************************)
(* Claims about disconnect and validate, checked under SpecDisc.           *)
(***************************************************************************)
\* some disconnect call has completed successfully
Disconnected == \E i \in 1..Len(dCalls) : dCalls[i].pc = "resolved"

\* C29: over any sequence or interleaving of disconnect calls on one
\* connection, close() is invoked on the engine connection at most once;
\* and once a disconnect has completed successfully, validate(connection)
\* is false and every further disconnect call returns without touching the
\* engine.
C29_CloseAtMostOnce ==
  /\ dCloses <= 1
  /\ Disconnected => ~validate(dFlag)
  /\ \A i \in 1..Len(dCalls) : dCalls[i].afterSuccess => dCalls[i].pc = "returned"

\* the part of C29 about the time after a successful disconnect
ClosedForGood ==
  /\ Disconnected => ~validate(dFlag)
  /\ \A i \in 1..Len(dCalls) : dCalls[i].afterSuccess => dCalls[i].pc = "returned"

====
